---- MODULE Spec2Model ----
(***************************************************************************)
(* Model of the colour engine of colorir: the colour systems of            *)
(* colorir/color_class.py, the ColorFormat of colorir/color_format.py and  *)
(* the process-wide default of colorir/config.py.                          *)
(*                                                                         *)
(* Numbers.  Python floats are modelled as exact rationals [n, d] in       *)
(* lowest terms; np.rint and round() are round-half-to-even on them.       *)
(* Strings are sequences of one-character strings.  A Python exception is  *)
(* a record [err |-> <exception class>].                                   *)
(*                                                                         *)
(* Outside the model: the CIE systems (CIELab, CIELuv, HCLuv, HCLab) and   *)
(* linear=True of RGB, whose conversions need cube roots and powers, and   *)
(* the FutureWarning of the tail_a default.                                *)
(***************************************************************************)
EXTENDS Integers, Sequences, FiniteSets, TLC

VARIABLES
    DEFAULT_COLOR_FORMAT,   \* config.DEFAULT_COLOR_FORMAT
    fmt,                    \* the ColorFormat object in use
    call1,                  \* first colour-like input / constructor call
    call2,                  \* second colour-like input / constructor call
    c1,                     \* value built from call1 (or the exception raised)
    c2,                     \* value built from call2 (or the exception raised)
    res,                    \* result of the last operation
    first,                  \* result of the first format() call on call1
    op,                     \* name of the last operation
    steps,                  \* number of operations performed
    palette,                \* the palette the methods are called on
    palette2,               \* a second palette: the operand of & or what load returned
    files,                  \* the .palette files of each directory
    warnings,               \* the warnings emitted by the last call
    grad                    \* the gradient the methods are called on

pvars == <<palette, palette2, files, warnings, grad>>

vars == <<DEFAULT_COLOR_FORMAT, fmt, call1, call2, c1, c2, res, first, op, steps, pvars>>

-----------------------------------------------------------------------------
(* Exact arithmetic standing for Python floats                              *)

Abs(x) == IF x < 0 THEN -x ELSE x

RECURSIVE Gcd(_, _)
Gcd(x, y) == IF y = 0 THEN x ELSE Gcd(y, x % y)

\* the rational n/d in lowest terms, d > 0
R(n, d) ==
    LET s == IF d < 0 THEN -1 ELSE 1
        g == Gcd(Abs(n), Abs(d))
    IN  [n |-> (s * n) \div g, d |-> (s * d) \div g]

I(k) == [n |-> k, d |-> 1]

\* the operations cancel common factors before they multiply
RAdd(x, y) ==
    LET g == Gcd(x.d, y.d)
    IN  R(x.n * (y.d \div g) + y.n * (x.d \div g), (x.d \div g) * y.d)
RNeg(x) == [n |-> -x.n, d |-> x.d]
RSub(x, y) == RAdd(x, RNeg(y))
RMul(x, y) ==
    LET g1 == Gcd(Abs(x.n), y.d)
        g2 == Gcd(Abs(y.n), x.d)
    IN  R((x.n \div g1) * (y.n \div g2), (x.d \div g2) * (y.d \div g1))
RDiv(x, y) == RMul(x, R(y.d, y.n))
RLe(x, y) ==
    LET g == Gcd(x.d, y.d)
    IN  x.n * (y.d \div g) <= y.n * (x.d \div g)
RLt(x, y) ==
    LET g == Gcd(x.d, y.d)
    IN  x.n * (y.d \div g) < y.n * (x.d \div g)
RFloor(x) == x.n \div x.d
\* Python's x % m for m > 0: result in [0, m)
RMod(x, m) == RSub(x, RMul(I(RFloor(RDiv(x, m))), m))
RMax(x, y) == IF RLe(x, y) THEN y ELSE x
RMin(x, y) == IF RLe(x, y) THEN x ELSE y

\* np.rint / round(x): nearest integer, ties to the even one
RInt(x) ==
    LET f == x.n \div x.d
        r2 == 2 * (x.n - f * x.d)
    IN  IF r2 < x.d THEN f
        ELSE IF r2 > x.d THEN f + 1
        ELSE IF f % 2 = 0 THEN f ELSE f + 1

RECURSIVE Pow10(_)
Pow10(k) == IF k = 0 THEN 1 ELSE 10 * Pow10(k - 1)

\* round(x, k) for k > 0
RRound(x, k) == R(RInt(RMul(x, I(Pow10(k)))), Pow10(k))

IsErr(x) == "err" \in DOMAIN x
Err(e) == [err |-> e]

\* Python values: a number is [n, d], a plain string [str |-> characters]
IsNum(x) == "n" \in DOMAIN x
IsPlainStr(x) == "str" \in DOMAIN x
Str(chars) == [str |-> chars]

-----------------------------------------------------------------------------
(* Python call protocol: positional and keyword arguments                   *)

\* parameter names of each constructor, in positional order
Signature(sys) ==
    CASE sys = "RGB"  -> <<"r", "g", "b", "a", "max_rgb", "max_a", "include_a", "round_to", "linear">>
      [] sys = "HSL"  -> <<"h", "s", "l", "a", "max_h", "max_sla", "include_a", "round_to">>
      [] sys = "HSV"  -> <<"h", "s", "v", "a", "max_h", "max_sva", "include_a", "round_to">>
      [] sys = "CMYK" -> <<"c", "m", "y", "k", "a", "max_cmyka", "include_a", "round_to">>
      [] sys = "CMY"  -> <<"c", "m", "y", "a", "max_cmya", "include_a", "round_to">>
      [] sys = "Hex"  -> <<"hex_str", "uppercase", "include_hash", "include_a", "tail_a">>

\* number of parameters without a default
Required(sys) == CASE sys = "CMYK" -> 4 [] sys = "Hex" -> 1 [] OTHER -> 3

\* keyword parameters of each _from_rgba (everything after the components and a)
FromRgbaParams(sys) ==
    CASE sys = "RGB"  -> {"max_rgb", "max_a", "include_a", "round_to", "linear"}
      [] sys = "HSL"  -> {"max_h", "max_sla", "include_a", "round_to"}
      [] sys = "HSV"  -> {"max_h", "max_sva", "include_a", "round_to"}
      [] sys = "CMYK" -> {"max_cmyka", "include_a", "round_to"}
      [] sys = "CMY"  -> {"max_cmya", "include_a", "round_to"}
      [] sys = "Hex"  -> {"uppercase", "include_hash", "include_a", "tail_a"}

Range(f) == {f[x] : x \in DOMAIN f}

\* cls(*args, **kwargs): the parameter binding, or TypeError
Bind(sys, args, kwargs) ==
    LET sig == Signature(sys)
        pos == IF Len(args) <= Len(sig) THEN {sig[i] : i \in 1..Len(args)} ELSE {}
    IN  IF Len(args) > Len(sig) THEN Err("TypeError")
        ELSE IF ~(DOMAIN kwargs \subseteq Range(sig)) THEN Err("TypeError")
        ELSE IF pos \cap DOMAIN kwargs # {} THEN Err("TypeError")
        ELSE IF \E i \in 1..Required(sys) : sig[i] \notin pos \cup DOMAIN kwargs
             THEN Err("TypeError")
        ELSE [k \in pos \cup DOMAIN kwargs |->
                IF k \in pos THEN args[CHOOSE i \in 1..Len(args) : sig[i] = k]
                ELSE kwargs[k]]

\* value of a parameter, or its default when it was not passed
Get(b, k, default) == IF k \in DOMAIN b THEN b[k] ELSE default

-----------------------------------------------------------------------------
(* ColorTupleBase                                                           *)

RoundSpec(val, round_to) ==
    IF round_to = 0 THEN I(RInt(val))
    ELSE IF round_to > 0 THEN RRound(val, round_to)
    ELSE val

Rint4(rgba) == [i \in 1..4 |-> RInt(rgba[i])]

\* ColorTupleBase.__new__: the rounded tuple, a, the format attributes and
\* the integer canonical channels
ColorTupleBase_new(sys, specs, a, rgba, include_a, round_to, own) ==
    LET rspecs == [i \in 1..Len(specs) |-> RoundSpec(specs[i], round_to)]
        ra == RoundSpec(a, round_to)
    IN  [sys |-> sys,
         val |-> IF include_a THEN Append(rspecs, ra) ELSE rspecs,
         a |-> ra,
         rgba |-> Rint4(rgba),
         params |-> [k \in {"include_a", "round_to"} \cup DOMAIN own |->
                        IF k = "include_a" THEN include_a
                        ELSE IF k = "round_to" THEN round_to
                        ELSE own[k]]]

\* variant: the upper boundary itself is rejected
InRange_exclusive(x, max) == RLe(I(0), x) /\ RLt(x, max)

InRange(x, max) == RLe(I(0), x) /\ RLe(x, max)

Scale255(x, max) == RMul(RDiv(x, max), I(255))

-----------------------------------------------------------------------------
(* RGB                                                                      *)

RGB_new(b) ==
    LET max_rgb == Get(b, "max_rgb", I(1))
        max_a == Get(b, "max_a", I(1))
        a == Get(b, "a", max_a)
    IN  IF "a" \in DOMAIN b /\ ~InRange(b.a, max_a) THEN Err("ValueError")
        ELSE IF ~(\A k \in {"r", "g", "b"} : InRange(b[k], max_rgb)) THEN Err("ValueError")
        ELSE ColorTupleBase_new("RGB", <<b.r, b.g, b.b>>, a,
                 <<Scale255(b.r, max_rgb), Scale255(b.g, max_rgb),
                   Scale255(b.b, max_rgb), Scale255(a, max_a)>>,
                 Get(b, "include_a", FALSE), Get(b, "round_to", -1),
                 [k \in {"max_rgb", "max_a", "linear"} |->
                    CASE k = "max_rgb" -> max_rgb [] k = "max_a" -> max_a
                      [] k = "linear" -> Get(b, "linear", FALSE)])

\* variant: the canonical channels are recomputed from the rounded components
RGB_from_rgba_recomputed(rgba, kw) ==
    LET max_rgb == Get(kw, "max_rgb", I(1))
        max_a == Get(kw, "max_a", I(1))
        round_to == Get(kw, "round_to", -1)
        rgb == [i \in 1..3 |-> RoundSpec(RMul(RDiv(rgba[i], I(255)), max_rgb), round_to)]
        a == RoundSpec(RMul(RDiv(rgba[4], I(255)), max_a), round_to)
    IN  ColorTupleBase_new("RGB", rgb, a,
            <<Scale255(rgb[1], max_rgb), Scale255(rgb[2], max_rgb),
              Scale255(rgb[3], max_rgb), Scale255(a, max_a)>>,
            Get(kw, "include_a", FALSE), round_to,
            [k \in {"max_rgb", "max_a", "linear"} |->
                CASE k = "max_rgb" -> max_rgb [] k = "max_a" -> max_a
                  [] k = "linear" -> Get(kw, "linear", FALSE)])

RGB_from_rgba(rgba, kw) ==
    LET max_rgb == Get(kw, "max_rgb", I(1))
        max_a == Get(kw, "max_a", I(1))
    IN  ColorTupleBase_new("RGB",
            [i \in 1..3 |-> RMul(RDiv(rgba[i], I(255)), max_rgb)],
            RMul(RDiv(rgba[4], I(255)), max_a),
            rgba,
            Get(kw, "include_a", FALSE), Get(kw, "round_to", -1),
            [k \in {"max_rgb", "max_a", "linear"} |->
                CASE k = "max_rgb" -> max_rgb [] k = "max_a" -> max_a
                  [] k = "linear" -> Get(kw, "linear", FALSE)])


-----------------------------------------------------------------------------
(* colorsys (Python standard library), as called by HSL and HSV             *)

ONE_THIRD == R(1, 3)
ONE_SIXTH == R(1, 6)
TWO_THIRD == R(2, 3)
HALF == R(1, 2)

RMax3(x, y, z) == RMax(x, RMax(y, z))
RMin3(x, y, z) == RMin(x, RMin(y, z))

colorsys_v(m1, m2, hue0) ==
    LET hue == RMod(hue0, I(1))
    IN  IF RLt(hue, ONE_SIXTH) THEN RAdd(m1, RMul(RMul(RSub(m2, m1), hue), I(6)))
        ELSE IF RLt(hue, HALF) THEN m2
        ELSE IF RLt(hue, TWO_THIRD)
             THEN RAdd(m1, RMul(RMul(RSub(m2, m1), RSub(TWO_THIRD, hue)), I(6)))
        ELSE m1

hls_to_rgb(h, l, s) ==
    IF s = I(0) THEN <<l, l, l>>
    ELSE LET m2 == IF RLe(l, HALF) THEN RMul(l, RAdd(I(1), s))
                   ELSE RSub(RAdd(l, s), RMul(l, s))
             m1 == RSub(RMul(I(2), l), m2)
         IN  <<colorsys_v(m1, m2, RAdd(h, ONE_THIRD)),
               colorsys_v(m1, m2, h),
               colorsys_v(m1, m2, RSub(h, ONE_THIRD))>>

\* the hue computed by rgb_to_hls and rgb_to_hsv when maxc # minc
colorsys_hue(r, g, b, maxc, rangec) ==
    LET rc == RDiv(RSub(maxc, r), rangec)
        gc == RDiv(RSub(maxc, g), rangec)
        bc == RDiv(RSub(maxc, b), rangec)
        h == IF r = maxc THEN RSub(bc, gc)
             ELSE IF g = maxc THEN RSub(RAdd(I(2), rc), bc)
             ELSE RSub(RAdd(I(4), gc), rc)
    IN  RMod(RDiv(h, I(6)), I(1))

rgb_to_hls(r, g, b) ==
    LET maxc == RMax3(r, g, b)
        minc == RMin3(r, g, b)
        sumc == RAdd(maxc, minc)
        rangec == RSub(maxc, minc)
        l == RDiv(sumc, I(2))
    IN  IF minc = maxc THEN <<I(0), l, I(0)>>
        ELSE <<colorsys_hue(r, g, b, maxc, rangec),
               l,
               IF RLe(l, HALF) THEN RDiv(rangec, sumc)
               ELSE RDiv(rangec, RSub(I(2), sumc))>>

rgb_to_hsv(r, g, b) ==
    LET maxc == RMax3(r, g, b)
        minc == RMin3(r, g, b)
        rangec == RSub(maxc, minc)
    IN  IF minc = maxc THEN <<I(0), I(0), maxc>>
        ELSE <<colorsys_hue(r, g, b, maxc, rangec), RDiv(rangec, maxc), maxc>>

hsv_to_rgb(h, s, v) ==
    IF s = I(0) THEN <<v, v, v>>
    ELSE LET h6 == RMul(h, I(6))
             i == RFloor(h6)
             f == RSub(h6, I(i))
             p == RMul(v, RSub(I(1), s))
             q == RMul(v, RSub(I(1), RMul(s, f)))
             t == RMul(v, RSub(I(1), RMul(s, RSub(I(1), f))))
             j == i % 6
         IN  CASE j = 0 -> <<v, t, p>>
               [] j = 1 -> <<q, v, p>>
               [] j = 2 -> <<p, v, t>>
               [] j = 3 -> <<p, q, v>>
               [] j = 4 -> <<t, p, v>>
               [] j = 5 -> <<v, p, q>>

-----------------------------------------------------------------------------
(* HSL and HSV                                                              *)

Times255(seq) == [i \in 1..Len(seq) |-> RMul(seq[i], I(255))]
Over255(rgba) == [i \in 1..Len(rgba) |-> RDiv(rgba[i], I(255))]

PolarOwn(max_h, maxname, max) ==
    [k \in {"max_h", maxname} |-> IF k = "max_h" THEN max_h ELSE max]

HSL_new(b) ==
    LET max_h == Get(b, "max_h", I(360))
        max_sla == Get(b, "max_sla", I(1))
        a == Get(b, "a", max_sla)
    IN  IF ~(\A x \in {b.s, b.l, a} : InRange(x, max_sla)) THEN Err("ValueError")
        ELSE ColorTupleBase_new("HSL", <<b.h, b.s, b.l>>, a,
                 Times255(hls_to_rgb(RDiv(RMod(b.h, max_h), max_h),
                                     RDiv(b.l, max_sla),
                                     RDiv(b.s, max_sla))
                          \o <<RDiv(a, max_sla)>>),
                 Get(b, "include_a", FALSE), Get(b, "round_to", -1),
                 PolarOwn(max_h, "max_sla", max_sla))

HSL_from_rgba(rgba, kw) ==
    LET max_h == Get(kw, "max_h", I(360))
        max_sla == Get(kw, "max_sla", I(1))
        c == Over255(rgba)
        hls == rgb_to_hls(c[1], c[2], c[3])
    IN  ColorTupleBase_new("HSL",
            <<RMul(hls[1], max_h), RMul(hls[3], max_sla), RMul(hls[2], max_sla)>>,
            RMul(c[4], max_sla),
            rgba,
            Get(kw, "include_a", FALSE), Get(kw, "round_to", -1),
            PolarOwn(max_h, "max_sla", max_sla))

HSV_new(b) ==
    LET max_h == Get(b, "max_h", I(360))
        max_sva == Get(b, "max_sva", I(1))
        a == Get(b, "a", max_sva)
    IN  IF ~(\A x \in {b.s, b.v, a} : InRange(x, max_sva)) THEN Err("ValueError")
        ELSE ColorTupleBase_new("HSV", <<b.h, b.s, b.v>>, a,
                 Times255(hsv_to_rgb(RDiv(RMod(b.h, max_h), max_h),
                                     RDiv(b.s, max_sva),
                                     RDiv(b.v, max_sva))
                          \o <<RDiv(a, max_sva)>>),
                 Get(b, "include_a", FALSE), Get(b, "round_to", -1),
                 PolarOwn(max_h, "max_sva", max_sva))

HSV_from_rgba(rgba, kw) ==
    LET max_h == Get(kw, "max_h", I(360))
        max_sva == Get(kw, "max_sva", I(1))
        c == Over255(rgba)
        hsv == rgb_to_hsv(c[1], c[2], c[3])
    IN  ColorTupleBase_new("HSV",
            <<RMul(hsv[1], max_h), RMul(hsv[2], max_sva), RMul(hsv[3], max_sva)>>,
            RMul(c[4], max_sva),
            rgba,
            Get(kw, "include_a", FALSE), Get(kw, "round_to", -1),
            PolarOwn(max_h, "max_sva", max_sva))

-----------------------------------------------------------------------------
(* colormath conversions used by CMY and CMYK                               *)

CMY_to_RGB(c, m, y) == <<RSub(I(1), c), RSub(I(1), m), RSub(I(1), y)>>

RGB_to_CMY(r, g, b) == <<RSub(I(1), r), RSub(I(1), g), RSub(I(1), b)>>

CMYK_to_RGB(c, m, y, k) ==
    LET nk == RSub(I(1), k)
    IN  <<RMul(RSub(I(1), c), nk), RMul(RSub(I(1), m), nk), RMul(RSub(I(1), y), nk)>>

RGB_to_CMYK(r, g, b) ==
    LET cmy == RGB_to_CMY(r, g, b)
        k == RMin(I(1), RMin3(cmy[1], cmy[2], cmy[3]))
    IN  IF k = I(1) THEN <<I(0), I(0), I(0), I(1)>>
        ELSE <<RDiv(RSub(cmy[1], k), RSub(I(1), k)),
               RDiv(RSub(cmy[2], k), RSub(I(1), k)),
               RDiv(RSub(cmy[3], k), RSub(I(1), k)),
               k>>

-----------------------------------------------------------------------------
(* CMYK and CMY                                                             *)

OneOwn(name, max) == [k \in {name} |-> max]

CMYK_new(b) ==
    LET max_cmyka == Get(b, "max_cmyka", I(1))
        a == Get(b, "a", max_cmyka)
    IN  IF ~(\A x \in {b.c, b.m, b.y, b.k, a} : InRange(x, max_cmyka)) THEN Err("ValueError")
        ELSE ColorTupleBase_new("CMYK", <<b.c, b.m, b.y, b.k>>, a,
                 Times255(CMYK_to_RGB(RDiv(b.c, max_cmyka), RDiv(b.m, max_cmyka),
                                      RDiv(b.y, max_cmyka), RDiv(b.k, max_cmyka))
                          \o <<RDiv(a, max_cmyka)>>),
                 Get(b, "include_a", FALSE), Get(b, "round_to", -1),
                 OneOwn("max_cmyka", max_cmyka))

CMYK_from_rgba(rgba, kw) ==
    LET max_cmyka == Get(kw, "max_cmyka", I(1))
        c == Over255(rgba)
        cmyk == RGB_to_CMYK(c[1], c[2], c[3])
    IN  ColorTupleBase_new("CMYK",
            [i \in 1..4 |-> RMul(cmyk[i], max_cmyka)],
            RMul(c[4], max_cmyka),
            rgba,
            Get(kw, "include_a", FALSE), Get(kw, "round_to", -1),
            OneOwn("max_cmyka", max_cmyka))

CMY_new(b) ==
    LET max_cmya == Get(b, "max_cmya", I(1))
        a == Get(b, "a", max_cmya)
    IN  IF ~(\A x \in {b.c, b.m, b.y, a} : InRange(x, max_cmya)) THEN Err("ValueError")
        ELSE ColorTupleBase_new("CMY", <<b.c, b.m, b.y>>, a,
                 Times255(CMY_to_RGB(RDiv(b.c, max_cmya), RDiv(b.m, max_cmya),
                                     RDiv(b.y, max_cmya))
                          \o <<RDiv(a, max_cmya)>>),
                 Get(b, "include_a", FALSE), Get(b, "round_to", -1),
                 OneOwn("max_cmya", max_cmya))

CMY_from_rgba(rgba, kw) ==
    LET max_cmya == Get(kw, "max_cmya", I(1))
        c == Over255(rgba)
        cmy == RGB_to_CMY(c[1], c[2], c[3])
    IN  ColorTupleBase_new("CMY",
            [i \in 1..3 |-> RMul(cmy[i], max_cmya)],
            RMul(c[4], max_cmya),
            rgba,
            Get(kw, "include_a", FALSE), Get(kw, "round_to", -1),
            OneOwn("max_cmya", max_cmya))

-----------------------------------------------------------------------------
(* Hex                                                                      *)

LowerDigits == <<"0", "1", "2", "3", "4", "5", "6", "7", "8", "9",
                 "a", "b", "c", "d", "e", "f">>
UpperDigits == <<"0", "1", "2", "3", "4", "5", "6", "7", "8", "9",
                 "A", "B", "C", "D", "E", "F">>

IsHexDigit(ch) == ch \in Range(LowerDigits) \cup Range(UpperDigits)

DigitValue(ch) ==
    IF ch \in Range(LowerDigits) THEN (CHOOSE i \in 1..16 : LowerDigits[i] = ch) - 1
    ELSE (CHOOSE i \in 1..16 : UpperDigits[i] = ch) - 1

\* int(s, 16) accepts a two-character string s: two hex digits, a sign or
\* a blank before one hex digit, one hex digit before a blank
ParsesAsInt(s) ==
    \/ IsHexDigit(s[1]) /\ IsHexDigit(s[2])
    \/ s[1] \in {"+", "-", " "} /\ IsHexDigit(s[2])
    \/ IsHexDigit(s[1]) /\ s[2] = " "

\* int(s, 16) of a two-character string it accepts
Int16(s) ==
    IF IsHexDigit(s[1]) /\ IsHexDigit(s[2]) THEN 16 * DigitValue(s[1]) + DigitValue(s[2])
    ELSE IF s[1] = "-" THEN -DigitValue(s[2])
    ELSE IF IsHexDigit(s[1]) THEN DigitValue(s[1])
    ELSE DigitValue(s[2])

\* every pair int(..., 16) is called on parses
PairsParse(full) == \A k \in 1..(Len(full) \div 2) : ParsesAsInt(SubSeq(full, 2 * k - 1, 2 * k))

\* str.lstrip("#")
RECURSIVE LStripHash(_)
LStripHash(s) == IF Len(s) > 0 /\ s[1] = "#" THEN LStripHash(Tail(s)) ELSE s

\* variant: the three digits are repeated as a block (xyzxyz)
Doubled_block(s) == s \o s

\* "".join(i + j for i, j in zip(s, s))
Doubled(s) == [i \in 1..(2 * Len(s)) |-> s[(i + 1) \div 2]]

\* str.upper() on the characters a hex string is made of
Upper(s) == [i \in 1..Len(s) |->
                IF s[i] \in Range(LowerDigits)
                THEN UpperDigits[CHOOSE j \in 1..16 : LowerDigits[j] = s[i]]
                ELSE s[i]]

\* '%02x' % v for an integer v >= 0
RECURSIVE HexOf(_)
HexOf(v) == IF v < 16 THEN <<LowerDigits[v + 1]>>
            ELSE Append(HexOf(v \div 16), LowerDigits[(v % 16) + 1])
Fmt02x(v) == IF v < 0 THEN <<"-">> \o HexOf(-v)
             ELSE IF v < 16 THEN <<"0">> \o HexOf(v)
             ELSE HexOf(v)

IsInteger(x) == x.d = 1

Hex_from_rgba(rgba, kw) ==
    LET uppercase == Get(kw, "uppercase", FALSE)
        include_hash == Get(kw, "include_hash", TRUE)
        include_a == Get(kw, "include_a", FALSE)
        \* default_tail is replaced by False
        tail_a == Get(kw, "tail_a", FALSE)
        used == IF include_a THEN 1..4 ELSE 1..3
    IN  IF \E i \in used : ~IsInteger(rgba[i]) THEN Err("TypeError")
        ELSE
        LET rgb == Fmt02x(rgba[1].n) \o Fmt02x(rgba[2].n) \o Fmt02x(rgba[3].n)
            s1 == IF ~include_a THEN rgb
                  ELSE IF ~tail_a THEN Fmt02x(rgba[4].n) \o rgb
                  ELSE rgb \o Fmt02x(rgba[4].n)
            s2 == IF uppercase THEN Upper(s1) ELSE s1
            s3 == IF include_hash THEN <<"#">> \o s2 ELSE s2
        IN  [sys |-> "Hex",
             val |-> s3,
             rgba |-> Rint4(rgba),
             params |-> [k \in {"uppercase", "include_hash", "include_a", "tail_a"} |->
                            CASE k = "uppercase" -> uppercase
                              [] k = "include_hash" -> include_hash
                              [] k = "include_a" -> include_a
                              [] k = "tail_a" -> tail_a]]

\* variant: the alpha byte is the leading pair whatever tail_a says
Hex_new_alpha_leading(b) ==
    LET tail_a == Get(b, "tail_a", FALSE)
        hex_str == LStripHash(b.hex_str.str)
    IN  \* len() or lstrip() of an object that is no string
        IF ~IsPlainStr(b.hex_str)
        THEN IF "tail_a" \notin DOMAIN b /\ ~Get(b, "include_a", FALSE)
             THEN Err("TypeError") ELSE Err("AttributeError")
        ELSE IF Len(hex_str) \notin {3, 6, 8} THEN Err("ValueError")
        ELSE
        LET full == IF Len(hex_str) = 3 THEN Doubled(hex_str) ELSE hex_str
            i == IF Len(full) < 8 THEN 0 ELSE 2
            apair == SubSeq(full, 1, 2)
        IN  IF ~PairsParse(full) THEN Err("ValueError")
            ELSE Hex_from_rgba(
                     <<I(Int16(SubSeq(full, i + 1, i + 2))),
                       I(Int16(SubSeq(full, i + 3, i + 4))),
                       I(Int16(SubSeq(full, i + 5, i + 6))),
                       I(IF Len(full) < 8 THEN 255 ELSE Int16(apair))>>,
                     [k \in {"uppercase", "include_hash", "include_a", "tail_a"} |->
                        CASE k = "uppercase" -> Get(b, "uppercase", FALSE)
                          [] k = "include_hash" -> Get(b, "include_hash", TRUE)
                          [] k = "include_a" -> Get(b, "include_a", FALSE)
                          [] k = "tail_a" -> tail_a])

Hex_new(b) ==
    LET tail_a == Get(b, "tail_a", FALSE)
        hex_str == LStripHash(b.hex_str.str)
    IN  \* len() or lstrip() of an object that is no string
        IF ~IsPlainStr(b.hex_str)
        THEN IF "tail_a" \notin DOMAIN b /\ ~Get(b, "include_a", FALSE)
             THEN Err("TypeError") ELSE Err("AttributeError")
        ELSE IF Len(hex_str) \notin {3, 6, 8} THEN Err("ValueError")
        ELSE
        LET full == IF Len(hex_str) = 3 THEN Doubled(hex_str) ELSE hex_str
            i == IF Len(full) < 8 \/ tail_a THEN 0 ELSE 2
            apair == IF tail_a THEN SubSeq(full, 7, 8) ELSE SubSeq(full, 1, 2)
        IN  IF ~PairsParse(full) THEN Err("ValueError")
            ELSE Hex_from_rgba(
                     <<I(Int16(SubSeq(full, i + 1, i + 2))),
                       I(Int16(SubSeq(full, i + 3, i + 4))),
                       I(Int16(SubSeq(full, i + 5, i + 6))),
                       I(IF Len(full) < 8 THEN 255 ELSE Int16(apair))>>,
                     [k \in {"uppercase", "include_hash", "include_a", "tail_a"} |->
                        CASE k = "uppercase" -> Get(b, "uppercase", FALSE)
                          [] k = "include_hash" -> Get(b, "include_hash", TRUE)
                          [] k = "include_a" -> Get(b, "include_a", FALSE)
                          [] k = "tail_a" -> tail_a])

-----------------------------------------------------------------------------
(* Dispatch over the colour systems                                         *)

Systems == {"RGB", "HSL", "HSV", "CMYK", "CMY", "Hex"}

\* the parameters a tuple-based constructor compares and divides
Numeric(sys) ==
    {Signature(sys)[i] : i \in 1..(Required(sys) + 1)}
    \cup {"max_rgb", "max_a", "max_h", "max_sla", "max_sva", "max_cmyka", "max_cmya"}

\* cls.__new__ on the bound parameters b
NewBound(sys, b) ==
    IF IsErr(b) THEN b
    \* ordering comparison or division of a string
    ELSE IF sys # "Hex" /\ \E k \in DOMAIN b \cap Numeric(sys) : ~IsNum(b[k])
    THEN Err("TypeError")
    ELSE CASE sys = "RGB"  -> RGB_new(b)
           [] sys = "HSL"  -> HSL_new(b)
           [] sys = "HSV"  -> HSV_new(b)
           [] sys = "CMYK" -> CMYK_new(b)
           [] sys = "CMY"  -> CMY_new(b)
           [] sys = "Hex"  -> Hex_new(b)

\* cls(*args, **kwargs)
New(sys, args, kwargs) == NewBound(sys, Bind(sys, args, kwargs))

\* cls._from_rgba(rgba, **kwargs)
FromRgba(sys, rgba, kwargs) ==
    IF ~(DOMAIN kwargs \subseteq FromRgbaParams(sys)) THEN Err("TypeError")
    ELSE CASE sys = "RGB"  -> RGB_from_rgba(rgba, kwargs)
           [] sys = "HSL"  -> HSL_from_rgba(rgba, kwargs)
           [] sys = "HSV"  -> HSV_from_rgba(rgba, kwargs)
           [] sys = "CMYK" -> CMYK_from_rgba(rgba, kwargs)
           [] sys = "CMY"  -> CMY_from_rgba(rgba, kwargs)
           [] sys = "Hex"  -> Hex_from_rgba(rgba, kwargs)

\* the integer channels of a colour value, as the numbers _from_rgba reads
Channels(color) == [i \in 1..4 |-> I(color.rgba[i])]

-----------------------------------------------------------------------------
(* Colour-like values: a colour value (a record with rgba), a plain string  *)
(* [str |-> characters], a plain tuple or list [tup |-> elements], or any   *)
(* other object (here a number)                                             *)

NoVal == [none |-> TRUE]
NoKw == [k \in {} |-> TRUE]

IsColorBase(x) == "rgba" \in DOMAIN x
\* isinstance(x, str): plain strings and Hex values
IsStr(x) == "str" \in DOMAIN x \/ (IsColorBase(x) /\ x.sys = "Hex")
\* hasattr(x, "__iter__"): strings, tuples, lists and every colour value
HasIter(x) == IsStr(x) \/ "tup" \in DOMAIN x \/ IsColorBase(x)
\* isinstance(x, ColorTupleBase)
IsColorTuple(x) == IsColorBase(x) /\ x.sys # "Hex"

StrOf(x) == IF "str" \in DOMAIN x THEN x.str ELSE x.val
IterOf(x) == IF "tup" \in DOMAIN x THEN x.tup ELSE x.val

-----------------------------------------------------------------------------
(* ColorFormat                                                              *)

ColorFormat(color_sys, format_kwargs) ==
    [color_sys |-> color_sys, format_params |-> format_kwargs]

\* variant: the exception raised inside the block is let through
wrap_format_error_passing(x) == x

\* _wrap_format_error.__exit__: any exception leaves as FormatError
wrap_format_error(x) == IF IsErr(x) THEN Err("FormatError") ELSE x

\* variant: the caller's keywords override the format's
UpdatedKwargs_caller_first(kwargs, format_params) ==
    [k \in DOMAIN kwargs \cup DOMAIN format_params |->
        IF k \in DOMAIN kwargs THEN kwargs[k] ELSE format_params[k]]

\* kwargs.update(self.format_params)
UpdatedKwargs(kwargs, format_params) ==
    [k \in DOMAIN kwargs \cup DOMAIN format_params |->
        IF k \in DOMAIN format_params THEN format_params[k] ELSE kwargs[k]]

\* variant: the format's own dictionary receives the caller's keywords
ParamsAfterNewColor_absorbing(F, kwargs) ==
    [k \in DOMAIN kwargs \cup DOMAIN F.format_params |->
        IF k \in DOMAIN F.format_params THEN F.format_params[k] ELSE kwargs[k]]

\* self.format_params once new_color has returned: the update is applied
\* to the caller's kwargs, the format keeps its own
ParamsAfterNewColor(F, kwargs) == F.format_params

ColorFormat_new_color(F, args, kwargs) ==
    New(F.color_sys, args, UpdatedKwargs(kwargs, F.format_params))

ColorFormat_from_rgba(F, rgba) == FromRgba(F.color_sys, rgba, F.format_params)

\* first branch of format: a colour value
FormatColorBase(F, color) ==
    wrap_format_error(ColorFormat_from_rgba(F, Channels(color)))

\* color_class.Hex(color): Hex with its default arguments
HexDefault(chars) == Hex_new(Bind("Hex", <<Str(chars)>>, NoKw))

\* self._from_rgba(h._rgba) for the Hex value h, or the exception of Hex
FromHexValue(F, h) == IF IsErr(h) THEN h ELSE ColorFormat_from_rgba(F, Channels(h))

\* variant: a string of exactly eight characters is still handed to Hex
FormatStr_upto8(F, color) ==
    IF F.color_sys = "Hex"
    THEN wrap_format_error(ColorFormat_new_color(F, <<Str(StrOf(color))>>, NoKw))
    ELSE IF Len(StrOf(color)) <= 8
    THEN wrap_format_error(FromHexValue(F, HexDefault(StrOf(color))))
    ELSE Err("FormatError")

\* variant: a string of seven characters, '#' and six digits, is refused
FormatStr_under7(F, color) ==
    IF F.color_sys = "Hex"
    THEN wrap_format_error(ColorFormat_new_color(F, <<Str(StrOf(color))>>, NoKw))
    ELSE IF Len(StrOf(color)) < 7
    THEN wrap_format_error(FromHexValue(F, HexDefault(StrOf(color))))
    ELSE Err("FormatError")

\* second branch of format: a string
FormatStr(F, color) ==
    IF F.color_sys = "Hex"
    THEN wrap_format_error(ColorFormat_new_color(F, <<Str(StrOf(color))>>, NoKw))
    ELSE IF Len(StrOf(color)) < 8
    THEN wrap_format_error(FromHexValue(F, HexDefault(StrOf(color))))
    ELSE Err("FormatError")

\* third branch of format: an iterable
FormatIter(F, color) ==
    IF F.color_sys = "Hex" THEN Err("FormatError")
    ELSE wrap_format_error(ColorFormat_new_color(F, IterOf(color), NoKw))

\* variant: strings and iterables are recognised before colour values
ColorFormat_format_content_first(F, color) ==
    IF IsStr(color) THEN FormatStr(F, color)
    ELSE IF HasIter(color) THEN FormatIter(F, color)
    ELSE IF IsColorBase(color) THEN FormatColorBase(F, color)
    ELSE Err("FormatError")

ColorFormat_format(F, color) ==
    IF IsColorBase(color) THEN FormatColorBase(F, color)
    ELSE IF IsStr(color) THEN FormatStr(F, color)
    ELSE IF HasIter(color) THEN FormatIter(F, color)
    ELSE Err("FormatError")

\* ColorBase.format: the ColorFormat of a colour value
FormatOf(color) == ColorFormat(color.sys, color.params)

-----------------------------------------------------------------------------
(* Equality                                                                 *)

\* np.all(np.rint(self._rgba) == np.rint(o._rgba)), a truth value of numpy,
\* or NotImplemented when o is the FormatError of the interpretation
RintEq(self, o) ==
    IF IsErr(o) THEN "NotImplemented"
    ELSE IF \A i \in 1..4 : RInt(I(self.rgba[i])) = RInt(I(o.rgba[i]))
         THEN "np.True_" ELSE "np.False_"

\* ColorBase.__eq__: "np.True_", "np.False_" or "NotImplemented"
ColorBase_eq(self, other) ==
    RintEq(self, IF IsColorBase(other) THEN other
                 ELSE ColorFormat_format(DEFAULT_COLOR_FORMAT, other))

\* x is True: the identity test, which only Python's own True passes
IsTrue(x) == x = "True"

\* bool(x) of a result of ColorBase.__eq__
Truth(x) == x \in {"True", "np.True_", "NotImplemented"}

\* tuple.__eq__(self, other) is True
TupleEq(self, other) ==
    ("tup" \in DOMAIN other \/ IsColorTuple(other)) /\ self.val = IterOf(other)

\* str.__eq__(self, other) is True
StrEq(self, other) == IsStr(other) /\ self.val = StrOf(other)

\* variant: the tuple contents are also compared when other is a colour value
ColorTupleBase_eq_content(self, other) ==
    Truth(ColorBase_eq(self, other)) \/ TupleEq(self, other)

\* the result of ColorBase.__eq__ when other is a colour value, otherwise
\* any([colorbase_eq is True, tuple.__eq__(self, other) is True])
ColorTupleBase_eq(self, other) ==
    IF IsColorBase(other) THEN Truth(ColorBase_eq(self, other))
    ELSE IsTrue(ColorBase_eq(self, other)) \/ TupleEq(self, other)

\* the result of ColorBase.__eq__ when other is a colour value, otherwise
\* any([colorbase_eq is True, str.__eq__(self, other) is True])
Hex_eq(self, other) ==
    IF IsColorBase(other) THEN Truth(ColorBase_eq(self, other))
    ELSE IsTrue(ColorBase_eq(self, other)) \/ StrEq(self, other)

\* self == other for a colour value self
Eq(self, other) ==
    IF self.sys = "Hex" THEN Hex_eq(self, other) ELSE ColorTupleBase_eq(self, other)

-----------------------------------------------------------------------------
(* Inputs of the colour specification                                       *)

Call(sys, args, kwargs) == [sys |-> sys, args |-> args, kwargs |-> kwargs]

\* component values: inside, on and outside the ranges 0..1 and 0..255
ChanVals == {I(-1), I(0), R(1, 2), I(1), I(255), I(256)}
ChanTriples ==
    UNION {{<<v, I(0), I(0)>>, <<I(0), v, I(0)>>, <<I(0), I(0), v>>, <<v, v, v>>} :
           v \in ChanVals}
AlphaArgs == {<<v>> : v \in {I(-1), I(0), R(1, 2), I(1), I(255), I(256)}}

RGBKwargs ==
    { NoKw,
      "max_rgb" :> I(255) @@ "max_a" :> I(255) @@ "round_to" :> 0,
      "max_rgb" :> I(1) @@ "max_a" :> I(1) @@ "round_to" :> -1 @@ "include_a" :> TRUE,
      "max_rgb" :> I(255) @@ "include_a" :> TRUE @@ "round_to" :> 0 }

RGBCalls ==
    {Call("RGB", t, kw) : t \in ChanTriples, kw \in RGBKwargs}
    \cup {Call("RGB", t \o a, kw) :
            t \in {<<I(0), I(0), I(0)>>, <<I(1), I(0), I(0)>>, <<I(255), I(255), I(255)>>},
            a \in AlphaArgs, kw \in RGBKwargs}
    \cup {Call("RGB", <<I(1), I(0)>>, NoKw)}

Hues == {I(-60), I(0), R(1, 3), I(120), I(240), I(360)}
Fractions == {I(0), R(1, 4), R(1, 2), I(1)}
PolarKwargs ==
    { NoKw,
      "max_h" :> I(1),
      "round_to" :> 0 @@ "include_a" :> TRUE }
PolarArgs ==
    {<<h, s, x>> : h \in Hues, s \in {I(0), I(1)}, x \in Fractions}
    \cup {<<I(0), I(1), I(2)>>, <<I(0), I(2), R(1, 2)>>, <<I(0), I(1), I(1), I(2)>>,
          <<I(0), I(1), R(1, 2), R(1, 2)>>, <<I(120), R(1, 2), R(1, 4), R(1, 2)>>,
          <<I(240), R(1, 2), R(1, 2)>>}

HSLCalls == {Call("HSL", t, kw) : t \in PolarArgs, kw \in PolarKwargs}
HSVCalls == {Call("HSV", t, kw) : t \in PolarArgs, kw \in PolarKwargs}

InkVals == {I(0), R(1, 2), I(1)}
CMYKCalls ==
    {Call("CMYK", <<c, m, y, k>>, kw) :
        c \in {I(0), I(1)}, m \in InkVals, y \in {I(0), I(1)}, k \in InkVals \cup {I(2)},
        kw \in {NoKw, "round_to" :> 0}}
    \cup {Call("CMYK", <<R(1, 2), I(0), I(1), R(1, 2), R(1, 2)>>, "include_a" :> TRUE)}
CMYCalls ==
    {Call("CMY", <<c, m, y>> \o a, kw) :
        c \in InkVals \cup {I(2)}, m \in {I(0), I(1)}, y \in {I(0), I(1)},
        a \in {<<>>, <<R(1, 2)>>, <<I(2)>>},
        kw \in {NoKw, "max_cmya" :> I(100) @@ "round_to" :> 0}}

HexChars == {"0", "f", "F", "g"}
HexBytes == {<<"0", "0">>, <<"f", "f">>, <<"F", "F">>, <<"8", "0">>, <<"0", "g">>}
PlainBytes == {<<"0", "0">>, <<"f", "f">>, <<"8", "0">>}
WithHash(S) == {<<"#">> \o x : x \in S}

\* strings with a sign or a blank where a digit is expected
SignedStrings ==
    { <<"-", "f", "0", "0", "0", "0">>, <<"+", "f", "0", "0", "0", "0">>,
      <<"f", " ", "0", "0", "0", "0">>, <<"-", "f", "0">>,
      <<"-", "1", "f", "f", "0", "0", "0", "0">> }

HexStrings ==
    LET s3 == {<<x, y, z>> : x \in HexChars, y \in HexChars, z \in HexChars}
        p3 == {<<x, y, z>> : x \in {"0", "F"}, y \in {"0", "F"}, z \in {"0", "F"}}
        s6 == {x \o y \o z : x \in HexBytes, y \in {<<"0", "0">>, <<"f", "f">>},
                             z \in {<<"0", "0">>, <<"f", "f">>}}
        p6 == {x \o <<"0", "0">> \o z : x \in {<<"F", "F">>, <<"8", "0">>},
                                        z \in {<<"0", "0">>, <<"f", "f">>}}
        s8 == {w \o x \o <<"0", "0">> \o z :
                    w \in PlainBytes \cup {<<"F", "g">>},
                    x \in {<<"0", "0">>, <<"f", "f">>},
                    z \in {<<"0", "0">>, <<"8", "0">>}}
        bad == {<<>>, <<"f">>, <<"f", "f">>, <<"f", "0", "0", "f">>,
                <<"f", "f", "0", "0", "0">>, <<"f", "f", "0", "0", "0", "0", "f">>,
                <<"f", "f", "0", "0", "0", "0", "f", "f", "0">>}
    IN  s3 \cup WithHash(p3) \cup s6 \cup WithHash(p6) \cup s8 \cup WithHash(s8)
        \cup bad \cup WithHash(bad) \cup {<<"#", "#", "f", "0", "0">>}
        \cup {<<"#", "f", "f", "0", "0", "0", "0", "f", "f">>}
        \cup SignedStrings

HexKwargs ==
    { NoKw,
      "tail_a" :> TRUE,
      "include_a" :> TRUE @@ "uppercase" :> TRUE }

HexCalls == {Call("Hex", <<Str(s)>>, kw) : s \in HexStrings, kw \in HexKwargs}

Calls1 == RGBCalls \cup HSLCalls \cup HSVCalls \cup CMYKCalls \cup CMYCalls \cup HexCalls

\* the second operand: red and translucent red in several systems
Calls2 ==
    { Call("RGB", <<I(1), I(0), I(0)>>, NoKw),
      Call("RGB", <<I(1), I(0), I(0), R(1, 2)>>, "include_a" :> TRUE),
      Call("HSL", <<I(0), I(1), R(1, 2)>>, NoKw),
      Call("CMY", <<I(0), I(1), I(1), R(1, 2)>>, NoKw),
      Call("Hex", <<Str(<<"f", "f", "0", "0", "0", "0">>)>>, NoKw),
      Call("Hex", <<Str(<<"f", "0", "0">>)>>, "tail_a" :> TRUE),
      Call("Hex", <<Str(<<"#", "8", "0", "f", "f", "0", "0", "0", "0">>)>>, "include_a" :> TRUE),
      Call("Hex", <<Str(<<"#", "f", "f", "0", "0", "0", "0", "f", "f">>)>>, "tail_a" :> TRUE) }

Presets ==
    { ColorFormat("Hex", NoKw),
      ColorFormat("RGB", "max_rgb" :> I(255) @@ "max_a" :> I(255) @@ "round_to" :> 0) }

-----------------------------------------------------------------------------
(* The colour specification: two constructor calls, then comparisons and    *)
(* reconstructions from the canonical channels                              *)

InitColor ==
    /\ DEFAULT_COLOR_FORMAT = ColorFormat("Hex", NoKw)
    /\ fmt = NoVal
    /\ call1 \in Calls1
    /\ call2 \in Calls2
    /\ c1 = NoVal
    /\ c2 = NoVal
    /\ res = NoVal
    /\ first = NoVal
    /\ op = "init"
    /\ steps = 0
    /\ palette = NoVal
    /\ palette2 = NoVal
    /\ files = NoVal
    /\ warnings = <<>>
    /\ grad = NoVal

\* c1 = cls(*args, **kwargs) for the first call
Construct1 ==
    /\ c1 = NoVal
    /\ c1' = New(call1.sys, call1.args, call1.kwargs)
    /\ op' = "new"
    /\ UNCHANGED <<DEFAULT_COLOR_FORMAT, fmt, call1, call2, c2, res, first, steps, pvars>>

\* c2 = cls(*args, **kwargs) for the second call
Construct2 ==
    /\ c1 # NoVal
    /\ c2 = NoVal
    /\ c2' = New(call2.sys, call2.args, call2.kwargs)
    /\ op' = "new"
    /\ UNCHANGED <<DEFAULT_COLOR_FORMAT, fmt, call1, call2, c1, res, first, steps, pvars>>

\* res = (c1 == c2)
Compare ==
    /\ IsColorBase(c1)
    /\ IsColorBase(c2)
    /\ res' = [eq |-> Eq(c1, c2)]
    /\ op' = "eq"
    /\ UNCHANGED <<DEFAULT_COLOR_FORMAT, fmt, call1, call2, c1, c2, first, steps, pvars>>

\* res = type(c1)._from_rgba(c1._rgba, **format parameters of c1)
Reconstruct ==
    /\ IsColorBase(c1)
    /\ res' = FromRgba(c1.sys, Channels(c1), c1.params)
    /\ op' = "from_rgba"
    /\ UNCHANGED <<DEFAULT_COLOR_FORMAT, fmt, call1, call2, c1, c2, first, steps, pvars>>

NextColor == Construct1 \/ Construct2 \/ Compare \/ Reconstruct

SpecColor == InitColor /\ [][NextColor]_vars

-----------------------------------------------------------------------------
(* Properties of the colour specification                                   *)

SameChannels(x, y) == \A i \in 1..4 : x.rgba[i] = y.rgba[i]

\* C1: two colour values of any systems and any format parameters compare
\* equal exactly when their four integer canonical channels are equal.
C1_EqualityIsCanonical ==
    op = "eq" => (res.eq <=> SameChannels(c1, c2))

\* the example of the documentation: HSL(0, 1, 0.5) == RGB(1, 0, 0)
C1_Witness ==
    /\ op = "eq"
    /\ res.eq
    /\ c1.sys = "HSL" /\ c1.val = <<I(0), I(1), R(1, 2)>>
    /\ c2.sys = "RGB" /\ c2.val = <<I(1), I(0), I(0)>>

\* C2: rebuilding a value from its own canonical channels with its own
\* format parameters succeeds and yields a value of the same system and
\* parameters equal to the original.
C2_RoundTrip ==
    op = "from_rgba" =>
        /\ IsColorBase(res)
        /\ res.sys = c1.sys
        /\ res.params = c1.params
        /\ Eq(res, c1)
        /\ res.rgba = c1.rgba

\* a translucent RGB value on the 0..255 scale whose components were rounded
C2_Witness ==
    /\ op = "from_rgba"
    /\ IsColorBase(res)
    /\ c1.sys = "RGB"
    /\ c1.params["max_rgb"] = I(255)
    /\ c1.params["round_to"] = 0
    /\ c1.rgba = <<255, 255, 255, 128>>
    /\ Eq(res, c1)

\* the arguments of an RGB call that are out of range
RGBOutOfRange(call) ==
    LET max_rgb == Get(call.kwargs, "max_rgb", I(1))
        max_a == Get(call.kwargs, "max_a", I(1))
    IN  \/ \E i \in 1..3 : RLt(call.args[i], I(0)) \/ RLt(max_rgb, call.args[i])
        \/ /\ Len(call.args) = 4
           /\ RLt(call.args[4], I(0)) \/ RLt(max_a, call.args[4])

RECURSIVE NoHash(_)
NoHash(s) == IF Len(s) > 0 /\ s[1] = "#" THEN NoHash(Tail(s)) ELSE s
DigitOr(ch) == IF IsHexDigit(ch) THEN DigitValue(ch) ELSE -1
HexText(s) ==
    LET d == NoHash(s)
    IN  IF Len(d) = 3
        THEN <<DigitOr(d[1]), DigitOr(d[1]), DigitOr(d[2]), DigitOr(d[2]),
               DigitOr(d[3]), DigitOr(d[3])>>
        ELSE [i \in 1..Len(d) |-> DigitOr(d[i])]

\* C10: Hex parsing ignores '#', letter case and the 3-digit shorthand: a
\* 3-digit string xyz parses as xxyyzz with alpha 255, two strings with the
\* same text parse to the same canonical channels, and a digit count other
\* than 3, 6 or 8 raises ValueError.
C10_HexParsing ==
    (c1 # NoVal /\ call1.sys = "Hex") =>
        LET d == NoHash(call1.args[1].str)
        IN  /\ Len(d) \notin {3, 6, 8} => c1 = Err("ValueError")
            /\ (Len(d) = 3 /\ \A i \in 1..3 : IsHexDigit(d[i])) =>
                    /\ IsColorBase(c1)
                    /\ c1.rgba = <<17 * DigitValue(d[1]), 17 * DigitValue(d[2]),
                                   17 * DigitValue(d[3]), 255>>
            /\ (/\ c2 # NoVal
                /\ call2.sys = "Hex"
                /\ HexText(call1.args[1].str) = HexText(call2.args[1].str)
                /\ Get(call1.kwargs, "tail_a", FALSE) = Get(call2.kwargs, "tail_a", FALSE)) =>
                    /\ IsColorBase(c1)
                    /\ c1.rgba = c2.rgba

\* "#F00" against "ff0000"
C10_Witness ==
    /\ IsColorBase(c1)
    /\ IsColorBase(c2)
    /\ call1.args[1] = Str(<<"#", "F", "0", "0">>)
    /\ call2.args[1] = Str(<<"f", "f", "0", "0", "0", "0">>)
    /\ c1.rgba = <<255, 0, 0, 255>>
    /\ c2.rgba = <<255, 0, 0, 255>>

\* the pair of digits of an 8-digit text starting at position i
PairAt(d, i) == IF IsHexDigit(d[i]) /\ IsHexDigit(d[i + 1]) THEN Int16(SubSeq(d, i, i + 1)) ELSE -1

\* for an 8-digit string the trailing pair is alpha when tail_a is True and
\* the leading pair when it is False; the other pairs are red, green, blue
TailDecides ==
    (IsColorBase(c1) /\ call1.sys = "Hex" /\ Len(NoHash(call1.args[1].str)) = 8) =>
        LET d == NoHash(call1.args[1].str)
        IN  IF Get(call1.kwargs, "tail_a", FALSE)
            THEN c1.rgba = <<PairAt(d, 1), PairAt(d, 3), PairAt(d, 5), PairAt(d, 7)>>
            ELSE c1.rgba = <<PairAt(d, 3), PairAt(d, 5), PairAt(d, 7), PairAt(d, 1)>>

\* "#ff0000ff" parsed alpha-leading (c1) and alpha-trailing (c2)
BothReadings ==
    /\ IsColorBase(c1)
    /\ IsColorBase(c2)
    /\ call1.sys = "Hex"
    /\ call1.args[1] = Str(<<"#", "f", "f", "0", "0", "0", "0", "f", "f">>)
    /\ ~Get(call1.kwargs, "tail_a", FALSE)
    /\ call2.sys = "Hex"
    /\ call2.args[1] = call1.args[1]
    /\ Get(call2.kwargs, "tail_a", FALSE)

\* C11 as stated: tail_a decides which pair is alpha, and the two readings
\* of "#ff0000ff" have different canonical alpha.
C11_Original ==
    /\ TailDecides
    /\ BothReadings => c1.rgba[4] # c2.rgba[4]

\* C11 amended: tail_a decides which pair of an 8-digit string is alpha;
\* the two readings of "#ff0000ff" have the same canonical alpha 255, both
\* outer pairs being ff, and differ in the colour: blue (0, 0, 255) with
\* alpha leading, red (255, 0, 0) with alpha trailing.
C11_TailA ==
    /\ TailDecides
    /\ BothReadings =>
            /\ c1.rgba = <<0, 0, 255, 255>>
            /\ c2.rgba = <<255, 0, 0, 255>>

C11_Witness ==
    /\ BothReadings
    /\ c1.rgba[4] = c2.rgba[4]
    /\ c1.rgba # c2.rgba

-----------------------------------------------------------------------------
(* Inputs of the format specification                                       *)

MaxCalls == 3

PYGAME_COLOR_FORMAT ==
    ColorFormat("RGB", "max_rgb" :> I(255) @@ "max_a" :> I(255) @@ "round_to" :> 0)
KIVY_COLOR_FORMAT ==
    ColorFormat("RGB", "max_rgb" :> I(1) @@ "max_a" :> I(1) @@ "round_to" :> -1
                       @@ "include_a" :> TRUE)
MATPLOTLIB_COLOR_FORMAT == ColorFormat("Hex", "include_a" :> TRUE @@ "tail_a" :> TRUE)
WEB_COLOR_FORMAT == ColorFormat("Hex", "tail_a" :> TRUE)

Formats ==
    { ColorFormat("Hex", NoKw),
      WEB_COLOR_FORMAT,
      MATPLOTLIB_COLOR_FORMAT,
      PYGAME_COLOR_FORMAT,
      KIVY_COLOR_FORMAT,
      ColorFormat("RGB", "round_to" :> 0),
      ColorFormat("HSL", "max_h" :> I(100) @@ "max_sla" :> I(100) @@ "round_to" :> 0),
      ColorFormat("HSL", NoKw),
      ColorFormat("CMYK", NoKw),
      ColorFormat("CMY", "max_cmya" :> I(100) @@ "round_to" :> 2),
      \* a keyword the colour system does not take
      ColorFormat("RGB", "uppercase" :> TRUE) }

\* the keywords of a format are keywords of its colour system
WellFormed(F) == DOMAIN F.format_params \subseteq FromRgbaParams(F.color_sys)

\* colour values handed to format
TypedCalls ==
    { Call("RGB", <<I(1), I(0), I(0)>>, NoKw),
      Call("RGB", <<I(1), I(0), I(0), R(1, 2)>>, "include_a" :> TRUE),
      Call("RGB", <<R(1, 2), R(1, 2), R(1, 2)>>, "round_to" :> 0),
      Call("HSL", <<I(0), I(1), R(1, 2)>>, NoKw),
      Call("CMYK", <<R(1, 2), I(0), I(1), R(1, 2)>>, NoKw),
      Call("Hex", <<Str(<<"f", "0", "0">>)>>, "tail_a" :> TRUE),
      Call("Hex", <<Str(<<"#", "8", "0", "f", "f", "0", "0", "0", "0">>)>>, "include_a" :> TRUE),
      Call("Hex", <<Str(<<"3", "2", "4", "e", "0", "5">>)>>, "include_hash" :> FALSE) }
TypedColors == {New(c.sys, c.args, c.kwargs) : c \in TypedCalls}

PlainStrings ==
    { <<"f", "0", "0">>, <<"0", "g", "0">>,
      <<"f", "f", "0", "0", "0", "0">>, <<"#", "F", "F", "0", "0", "0", "0">>,
      <<"#", "3", "2", "4", "e", "0", "5">>,
      <<"f", "f", "0", "0", "0", "g">>,
      <<"8", "0", "f", "f", "0", "0", "0", "0">>,
      <<"#", "8", "0", "f", "f", "0", "0", "0", "0">>,
      <<>>, <<"f", "f", "0", "0">>,
      <<"#", "f", "f", "0", "0", "0", "0", "0">>,
      <<"f", "f", "0", "0", "0", "0", "0", "0", "0">> }

PlainTuples ==
    { <<I(1), I(0), I(0)>>, <<I(255), I(0), I(0)>>, <<I(0), R(1, 2), I(2)>>,
      <<I(1), I(0), I(0), R(1, 2)>>, <<I(1), I(0), I(0), I(256)>>,
      <<I(120), I(50), I(50)>>, <<I(50), I(78), I(5), I(255)>>,
      <<I(0), I(1), I(1), I(0), R(1, 2)>>,
      <<>>, <<I(-1), I(0), I(0)>>,
      <<Str(<<"f", "f">>), I(0), I(0)>>,
      <<I(1), I(0), I(0), I(1), I(1), I(1), I(1), I(1), I(1), I(1)>> }

\* the argument of format: colour values, plain strings, plain tuples and
\* an object that is none of them
ColorLikes ==
    TypedColors \cup {Str(x) : x \in PlainStrings} \cup {[tup |-> t] : t \in PlainTuples}
    \cup {I(5)}

\* the arguments of new_color
NewColorCalls ==
    { [args |-> <<I(1), I(0), I(0)>>,
       kwargs |-> "max_rgb" :> I(1) @@ "include_a" :> FALSE @@ "round_to" :> 1],
      [args |-> <<R(1, 2), I(0), I(1), R(1, 2)>>, kwargs |-> "round_to" :> 0],
      [args |-> <<Str(<<"#", "8", "0", "f", "f", "0", "0", "0", "0">>)>>,
       kwargs |-> "tail_a" :> FALSE @@ "uppercase" :> TRUE] }

-----------------------------------------------------------------------------
(* The format specification: one ColorFormat, used by up to MaxCalls calls  *)
(* of format and new_color while the default format may be reassigned       *)

InitFormat ==
    /\ DEFAULT_COLOR_FORMAT = ColorFormat("Hex", NoKw)
    /\ fmt \in Formats
    /\ call1 \in ColorLikes
    /\ call2 \in NewColorCalls
    /\ c1 = NoVal
    /\ c2 = NoVal
    /\ res = NoVal
    /\ first = NoVal
    /\ op = "init"
    /\ steps = 0
    /\ palette = NoVal
    /\ palette2 = NoVal
    /\ files = NoVal
    /\ warnings = <<>>
    /\ grad = NoVal

\* res = fmt.format(call1)
Format ==
    /\ steps < MaxCalls
    /\ res' = ColorFormat_format(fmt, call1)
    /\ first' = IF first = NoVal THEN res' ELSE first
    /\ op' = "format"
    /\ steps' = steps + 1
    /\ UNCHANGED <<DEFAULT_COLOR_FORMAT, fmt, call1, call2, c1, c2, pvars>>

\* res = fmt.new_color(*args, **kwargs)
NewColor ==
    /\ steps < MaxCalls
    /\ res' = ColorFormat_new_color(fmt, call2.args, call2.kwargs)
    /\ fmt' = [fmt EXCEPT !.format_params = ParamsAfterNewColor(fmt, call2.kwargs)]
    /\ op' = "new_color"
    /\ steps' = steps + 1
    /\ UNCHANGED <<DEFAULT_COLOR_FORMAT, call1, call2, c1, c2, first, pvars>>

\* the three forms of a colour value under a tuple-based format:
\* c1 = fmt.format(c), c2 = fmt.format(c.hex()), res = fmt.format(tuple(fmt.format(c)))
FormatForms ==
    /\ steps < MaxCalls
    /\ IsColorBase(call1)
    /\ fmt.color_sys # "Hex"
    /\ WellFormed(fmt)
    /\ c1' = ColorFormat_format(fmt, call1)
    /\ c2' = ColorFormat_format(fmt, Str(Hex_from_rgba(Channels(call1), NoKw).val))
    /\ res' = ColorFormat_format(fmt, [tup |-> c1'.val])
    /\ op' = "forms"
    /\ steps' = steps + 1
    /\ UNCHANGED <<DEFAULT_COLOR_FORMAT, fmt, call1, call2, first, pvars>>

\* config.DEFAULT_COLOR_FORMAT = another format
SetDefault ==
    /\ steps < MaxCalls
    /\ DEFAULT_COLOR_FORMAT' \in Presets \ {DEFAULT_COLOR_FORMAT}
    /\ op' = "set_default"
    /\ steps' = steps + 1
    /\ UNCHANGED <<fmt, call1, call2, c1, c2, res, first, pvars>>

NextFormat == Format \/ NewColor \/ FormatForms \/ SetDefault

SpecFormat == InitFormat /\ [][NextFormat]_vars

-----------------------------------------------------------------------------
(* Properties of the format specification                                   *)

\* the value carries every parameter the format fixes
HasFixedParams(color, F) ==
    \A k \in DOMAIN F.format_params : color.params[k] = F.format_params[k]

C4_Rejections ==
    op = "format" =>
        /\ ("tup" \in DOMAIN call1 /\ fmt.color_sys = "Hex") => res = Err("FormatError")
        /\ (/\ IsPlainStr(call1)
            /\ fmt.color_sys # "Hex"
            /\ Len(NoHash(call1.str)) = 8) => res = Err("FormatError")

\* eight digits without '#' under an RGB format
C4_Witness ==
    /\ op = "format"
    /\ call1 = Str(<<"8", "0", "f", "f", "0", "0", "0", "0">>)
    /\ fmt = PYGAME_COLOR_FORMAT
    /\ res = Err("FormatError")

\* C5: a failing format raises FormatError and nothing else.
C5_OnlyFormatError ==
    op = "format" => (IsErr(res) => res = Err("FormatError"))

\* a tuple with a negative component: ValueError inside the RGB constructor
C5_Witness ==
    /\ op = "format"
    /\ call1 = [tup |-> <<I(-1), I(0), I(0)>>]
    /\ fmt.color_sys = "RGB"
    /\ WellFormed(fmt)
    /\ res = Err("FormatError")

\* C6: new_color builds a value of the bound system in which every keyword
\* the format fixes has the format's value, whatever the caller passed; the
\* caller's keywords are used for the other parameters.
C6_FixedParamsWin ==
    (op = "new_color" /\ IsColorBase(res)) =>
        /\ res.sys = fmt.color_sys
        /\ HasFixedParams(res, fmt)
        /\ \A k \in DOMAIN call2.kwargs \ DOMAIN fmt.format_params :
                res.params[k] = call2.kwargs[k]

\* the caller passes max_rgb=1 and round_to=1 to a format fixing 255 and 0
C6_Witness ==
    /\ op = "new_color"
    /\ IsColorBase(res)
    /\ fmt = PYGAME_COLOR_FORMAT
    /\ "max_rgb" \in DOMAIN call2.kwargs
    /\ call2.kwargs["max_rgb"] = I(1)
    /\ res.params["max_rgb"] = I(255)
    /\ res.params["round_to"] = 0
    /\ res.params["include_a"] = FALSE

SixDigitChannels(d) ==
    <<Int16(SubSeq(d, 1, 2)), Int16(SubSeq(d, 3, 4)), Int16(SubSeq(d, 5, 6)), 255>>

\* six hex digits with at most one '#'
IsSixDigit(x) ==
    /\ IsPlainStr(x)
    /\ Len(x.str) <= 7
    /\ Len(NoHash(x.str)) = 6
    /\ \A i \in 1..6 : IsHexDigit(NoHash(x.str)[i])

SixDigitAccepted ==
    (op = "format" /\ IsSixDigit(call1) /\ WellFormed(fmt)) =>
        /\ IsColorBase(res)
        /\ res.rgba = SixDigitChannels(NoHash(call1.str))

ThreeFormsAgree ==
    /\ IsColorBase(c1)
    /\ IsColorBase(c2)
    /\ IsColorBase(res)
    /\ SameChannels(c1, call1)
    /\ SameChannels(c2, call1)
    /\ SameChannels(res, call1)

-----------------------------------------------------------------------------
(* Colour distances (colorir/utils.py)                                      *)

\* the colour values the colour-likes stand for under the default format
Interpreted(colors) ==
    [i \in DOMAIN colors |->
        IF IsColorBase(colors[i]) THEN colors[i]
        ELSE ColorFormat_format(DEFAULT_COLOR_FORMAT, colors[i])]

\* math.sqrt: the integer root of a perfect square (no distance exceeds
\* 3 * 255), otherwise the root left unevaluated
Sqrt(q) ==
    IF q.d = 1 /\ \E k \in 0..(3 * 255) : k * k = q.n
    THEN I(CHOOSE k \in 0..(3 * 255) : k * k = q.n)
    ELSE [sqrt_of |-> q]

\* variant: the weights of red and blue do not depend on the mean red
WeightedSquares_fixed(rgba1, rgba2) ==
    LET d_r == rgba1[1] - rgba2[1]
        d_g == rgba1[2] - rgba2[2]
        d_b == rgba1[3] - rgba2[3]
    IN  I(2 * d_r * d_r + 4 * d_g * d_g + 3 * d_b * d_b)

\* the sum under the root of simplified_dist
WeightedSquares(rgba1, rgba2) ==
    LET avg_r == R(rgba1[1] + rgba2[1], 2 * 255)
        d_r == rgba1[1] - rgba2[1]
        d_g == rgba1[2] - rgba2[2]
        d_b == rgba1[3] - rgba2[3]
    IN  RAdd(RAdd(RMul(RAdd(I(2), avg_r), I(d_r * d_r)),
                  I(4 * d_g * d_g)),
             RMul(RSub(I(3), avg_r), I(d_b * d_b)))

\* simplified_dist once both arguments are colour values, or the
\* FormatError of the first one that could not be interpreted
SimplifiedOf(colors) ==
    IF IsErr(colors[1]) THEN colors[1]
    ELSE IF IsErr(colors[2]) THEN colors[2]
    ELSE Sqrt(WeightedSquares(colors[1].rgba, colors[2].rgba))

simplified_dist(color1, color2) == SimplifiedOf(Interpreted(<<color1, color2>>))

DeltaEMethods == {"CIE76", "CIE94", "CIE2000", "CMC"}

\* variant: an unknown method is answered with the CIE76 distance
DeltaEOf_fallback(colors, method) ==
    IF IsErr(colors[1]) THEN colors[1]
    ELSE IF IsErr(colors[2]) THEN colors[2]
    ELSE [delta_e |-> IF method \in DeltaEMethods THEN method ELSE "CIE76",
          rgb1 |-> SubSeq(colors[1].rgba, 1, 3), rgb2 |-> SubSeq(colors[2].rgba, 1, 3)]

\* the CIE branch of color_dist once both arguments are colour values: the
\* delta-E of colormath (a number, left as the term delta_e(rgb1, rgb2)),
\* or ValueError after the conversions when the method is none of the four
DeltaEOf(colors, method) ==
    IF IsErr(colors[1]) THEN colors[1]
    ELSE IF IsErr(colors[2]) THEN colors[2]
    ELSE IF method \in DeltaEMethods
    THEN [delta_e |-> method,
          rgb1 |-> SubSeq(colors[1].rgba, 1, 3), rgb2 |-> SubSeq(colors[2].rgba, 1, 3)]
    ELSE Err("ValueError")

color_dist(color1, color2, method) ==
    IF method = "simplified" THEN simplified_dist(color1, color2)
    ELSE DeltaEOf(Interpreted(<<color1, color2>>), method)

-----------------------------------------------------------------------------
(* The distance specification: two colour-likes, distances between them     *)

DistColors ==
    { New("RGB", <<I(255), I(255), I(255)>>, "max_rgb" :> I(255)),
      New("RGB", <<I(0), I(0), I(0)>>, "max_rgb" :> I(255)),
      New("RGB", <<I(1), I(0), I(0), R(1, 2)>>, "include_a" :> TRUE),
      New("RGB", <<I(0), I(0), I(0), I(0)>>, NoKw),
      New("HSL", <<I(120), R(1, 2), R(1, 4)>>, NoKw),
      New("Hex", <<Str(<<"#", "8", "0", "3", "2", "4", "e", "0", "5">>)>>, NoKw) }

DistLikes ==
    DistColors
    \cup { Str(<<"f", "f", "f", "f", "f", "f">>), Str(<<"#", "0", "0", "0">>),
           Str(<<"0", "g", "0">>),
           [tup |-> <<I(255), I(255), I(255)>>], [tup |-> <<I(0), I(128), I(255), I(0)>>] }

Methods == {"simplified", "CIE76", "CIE94", "CIE2000", "CMC",
            "cie76", "Simplified", "euclidean", ""}

InitDist ==
    /\ DEFAULT_COLOR_FORMAT = ColorFormat("Hex", NoKw)
    /\ fmt = NoVal
    /\ call1 \in DistLikes
    /\ call2 \in DistLikes
    /\ c1 = NoVal
    /\ c2 = NoVal
    /\ res = NoVal
    /\ first = NoVal
    /\ op = "init"
    /\ steps = 0
    /\ palette = NoVal
    /\ palette2 = NoVal
    /\ files = NoVal
    /\ warnings = <<>>
    /\ grad = NoVal

\* res = simplified_dist(call1, call2)
SimplifiedDist ==
    /\ res' = simplified_dist(call1, call2)
    /\ op' = "simplified_dist"
    /\ c1' = NoVal
    /\ UNCHANGED <<DEFAULT_COLOR_FORMAT, fmt, call1, call2, c2, first, steps, pvars>>

\* res = color_dist(call1, call2, method); c1 keeps the method asked for
ColorDist ==
    \E method \in Methods :
        /\ res' = color_dist(call1, call2, method)
        /\ op' = "color_dist"
        /\ c1' = method
        /\ UNCHANGED <<DEFAULT_COLOR_FORMAT, fmt, call1, call2, c2, first, steps, pvars>>

\* config.DEFAULT_COLOR_FORMAT = another format
SetDefaultDist ==
    /\ DEFAULT_COLOR_FORMAT' \in Presets \ {DEFAULT_COLOR_FORMAT}
    /\ op' = "set_default"
    /\ UNCHANGED <<fmt, call1, call2, c1, c2, res, first, steps, pvars>>

NextDist == SimplifiedDist \/ ColorDist \/ SetDefaultDist

SpecDist == InitDist /\ [][NextDist]_vars

-----------------------------------------------------------------------------
(* Properties of the distance specification                                 *)

White == New("RGB", <<I(255), I(255), I(255)>>, "max_rgb" :> I(255))
Black == New("RGB", <<I(0), I(0), I(0)>>, "max_rgb" :> I(255))

\* both operands stand for a colour under the default format
BothValid == \A i \in 1..2 : ~IsErr(Interpreted(<<call1, call2>>)[i])

\* the square of a distance
Squared(dist) == IF "sqrt_of" \in DOMAIN dist THEN dist.sqrt_of ELSE RMul(dist, dist)

\* 2 * 255 times the documented sum, over the integer channels x and y
DocumentedSum(x, y) ==
      (2 * 2 * 255 + (x[1] + y[1])) * (x[1] - y[1]) * (x[1] - y[1])
    + 4 * 2 * 255 * (x[2] - y[2]) * (x[2] - y[2])
    + (3 * 2 * 255 - (x[1] + y[1])) * (x[3] - y[3]) * (x[3] - y[3])

\* C12: the square of simplified_dist is (2 + avgR)*dR^2 + 4*dG^2 +
\* (3 - avgR)*dB^2 over the canonical channels, with avgR = (R1 + R2)/(2*255);
\* alpha plays no part (colours that differ in alpha only are at distance 0);
\* white against black is exactly 765.
C12_SimplifiedDist ==
    (op = "simplified_dist" /\ BothValid) =>
        LET x == Interpreted(<<call1, call2>>)[1].rgba
            y == Interpreted(<<call1, call2>>)[2].rgba
        IN  /\ ~IsErr(res)
            /\ Squared(res) = R(DocumentedSum(x, y), 2 * 255)
            /\ SubSeq(x, 1, 3) = SubSeq(y, 1, 3) => res = I(0)
            /\ (SubSeq(x, 1, 3) = <<255, 255, 255>> /\ SubSeq(y, 1, 3) = <<0, 0, 0>>)
                   => res = I(765)

C12_Witness ==
    /\ op = "simplified_dist"
    /\ call1 = White
    /\ call2 = Black
    /\ res = I(765)

C12_AlphaWitness ==
    /\ op = "simplified_dist"
    /\ IsColorBase(call1) /\ IsColorBase(call2)
    /\ call1.rgba[4] # call2.rgba[4]
    /\ SubSeq(call1.rgba, 1, 3) = SubSeq(call2.rgba, 1, 3)
    /\ res = I(0)

\* C13: color_dist with a method that is none of 'simplified', 'CIE76',
\* 'CIE94', 'CIE2000', 'CMC' raises ValueError for every pair of valid
\* colours: no number and no other formula's result comes back.
C13_UnknownMethod ==
    (op = "color_dist" /\ BothValid /\ c1 \notin DeltaEMethods \cup {"simplified"})
        => res = Err("ValueError")

C13_Witness ==
    /\ op = "color_dist"
    /\ c1 = "Simplified"
    /\ call1 = White
    /\ call2 = Str(<<"#", "0", "0", "0">>)
    /\ res = Err("ValueError")

-----------------------------------------------------------------------------
(* Python dict: the pairs <<key, value>> in insertion order                 *)

Keys(d) == {d[i][1] : i \in DOMAIN d}
KeyList(d) == [i \in DOMAIN d |-> d[i][1]]
\* d[k]
Item(d, k) == d[CHOOSE i \in DOMAIN d : d[i][1] = k][2]
\* d[k] = v: a new key goes last, a known key keeps its place
SetItem(d, k, v) ==
    IF k \in Keys(d)
    THEN [i \in DOMAIN d |-> IF d[i][1] = k THEN <<k, v>> ELSE d[i]]
    ELSE Append(d, <<k, v>>)
\* del d[k]
DelItem(d, k) == SelectSeq(d, LAMBDA e : e[1] # k)

None == [none |-> TRUE]

-----------------------------------------------------------------------------
(* Palette (colorir/palette.py): _color_format and _color_dict              *)

\* the outcome of a method that may change self or raise
Done(self) == [self |-> self, exc |-> None]
Raise(self, e) == [self |-> self, exc |-> e]

\* dir(Palette): the attributes of Palette, PaletteBase and object
dir_Palette ==
    { "colors", "color_format", "color_names", "_for_each_color", "blend", "load",
      "get_color", "get_names", "add", "update", "remove", "save",
      "to_stackpalette", "to_dict", "grayscale",
      "__init__", "__len__", "__contains__", "__iter__", "__invert__", "__add__",
      "__sub__", "__mul__", "__truediv__", "__mod__", "__getattr__", "__getitem__",
      "__setitem__", "__delitem__", "__dir__", "__str__", "__repr__", "__eq__",
      "__and__", "__class__", "__dict__", "__doc__", "__module__", "__hash__" }

\* Palette.__dir__
Palette_dir(self) ==
    dir_Palette \cup {"_color_format", "_color_dict"} \cup Keys(self.color_dict)

\* variant: the format of the library as shipped, whatever the default is now
EmptyPalette_shipped(color_format) ==
    [color_format |-> IF color_format = None THEN ColorFormat("Hex", NoKw) ELSE color_format,
     color_dict |-> <<>>]

\* PaletteBase.__init__ and the empty _color_dict of Palette.__init__
EmptyPalette(color_format) ==
    [color_format |-> IF color_format = None THEN DEFAULT_COLOR_FORMAT ELSE color_format,
     color_dict |-> <<>>]

\* variant: the name is stored before the colour is formatted
Stored_early(self, name, color) ==
    IF IsErr(color)
    THEN Raise([self EXCEPT !.color_dict = SetItem(@, name, color)], color)
    ELSE Done([self EXCEPT !.color_dict = SetItem(@, name, color)])

\* self._color_dict[name] = color, unless formatting the colour raised
Stored(self, name, color) ==
    IF IsErr(color) THEN Raise(self, color)
    ELSE Done([self EXCEPT !.color_dict = SetItem(@, name, color)])

\* Palette.add once formatted is what self.color_format.format(color) gives
Palette_added(self, name, formatted) ==
    IF name \in Palette_dir(self) THEN Raise(self, Err("ValueError"))
    ELSE Stored(self, name, formatted)

Palette_add(self, name, color) ==
    Palette_added(self, name, ColorFormat_format(self.color_format, color))

\* Palette.update once formatted is what self.color_format.format(color) gives
Palette_updated(self, name, formatted) ==
    IF name \in Keys(self.color_dict) THEN Stored(self, name, formatted)
    ELSE Raise(self, Err("ValueError"))

Palette_update(self, name, color) ==
    Palette_updated(self, name, ColorFormat_format(self.color_format, color))

Palette_remove(self, name) ==
    IF name \in Keys(self.color_dict)
    THEN Done([self EXCEPT !.color_dict = DelItem(@, name)])
    ELSE Raise(self, Err("ValueError"))

\* for k, v in items: self.add(k, v), up to the first exception
RECURSIVE AddAll(_, _)
AddRest(r, rest) == IF r.exc # None THEN r ELSE AddAll(r.self, rest)
AddAll(self, items) ==
    IF items = <<>> THEN Done(self)
    ELSE AddRest(Palette_add(self, Head(items)[1], Head(items)[2]), Tail(items))

\* the object a constructor call leaves, or the exception it raised
Built(r) == IF r.exc # None THEN r.exc ELSE r.self

\* Palette(colors, color_format) for a dict or a palette
Palette_init(colors, color_format) ==
    Built(AddAll(EmptyPalette(color_format),
                 IF "color_dict" \in DOMAIN colors THEN colors.color_dict ELSE colors.dict))

\* Palette.__eq__: the item views are compared as sets
Palette_eq(self, other) ==
    /\ Len(self.color_dict) = Len(other.color_dict)
    /\ \A i \in DOMAIN self.color_dict :
          /\ self.color_dict[i][1] \in Keys(other.color_dict)
          /\ Eq(Item(other.color_dict, self.color_dict[i][1]), self.color_dict[i][2])

\* variant: a name of both palettes takes the value of other
Palette_and_overriding(self, other) ==
    [self |-> self, other |-> other,
     value |-> [color_format |-> self.color_format,
                color_dict |-> SelectSeq(self.color_dict,
                                         LAMBDA e : e[1] \notin Keys(other.color_dict))
                               \o other.color_dict]]

\* Palette.__and__: a copy of self built by the constructor, then add() for
\* every item of other; neither operand is assigned to
Palette_and(self, other) ==
    [self |-> self, other |-> other,
     value |-> Built(AddAll(EmptyPalette(self.color_format),
                            self.color_dict \o other.color_dict))]

-----------------------------------------------------------------------------
(* Palette files: every directory is a dict from palette names to file      *)
(* contents; a file content is the JSON object, a dict from colour names to *)
(* strings                                                                  *)

\* variant: the alpha pair is written last
SaveText_tail(color) ==
    Hex_from_rgba(Channels(color), "include_a" :> TRUE @@ "tail_a" :> TRUE).val

\* c_val.hex(include_a=True, tail_a=False), as the string json.dump writes
SaveText(color) ==
    Hex_from_rgba(Channels(color), "include_a" :> TRUE @@ "tail_a" :> FALSE).val

\* formatted_colors of Palette.save
FormattedColors(self) ==
    [i \in DOMAIN self.color_dict |->
        <<self.color_dict[i][1], SaveText(self.color_dict[i][2])>>]

\* Palette.save(name): the file name + ".palette" of config.DEFAULT_PALETTES_DIR
\* is rewritten
Palette_save(self, name, fs) ==
    [fs EXCEPT !.palettes_dir = SetItem(@, name, FormattedColors(self))]

\* s[a:b] for 0 <= a <= b
Slice(s, a, b) == SubSeq(s, a + 1, IF b < Len(s) THEN b ELSE Len(s))

\* int(s, 16) of a string of at most two characters
IntOf(s) ==
    IF s = <<>> \/ \E i \in DOMAIN s : ~IsHexDigit(s[i]) THEN Err("ValueError")
    ELSE IF Len(s) = 1 THEN I(DigitValue(s[1]))
    ELSE I(Int16(s))

\* the np.array of Palette.load: red, green, blue from characters 3..8,
\* alpha from characters 1..2
LoadedRgba(c_rgba) ==
    << IntOf(Slice(c_rgba, 3, 5)), IntOf(Slice(c_rgba, 5, 7)),
       IntOf(Slice(c_rgba, 7, 9)), IntOf(Slice(c_rgba, 1, 3)) >>

\* _resolve_palettes_dirs
resolve_palettes_dirs(search_builtins, search_cwd) ==
    <<"palettes_dir">>
    \o (IF search_builtins THEN <<"builtin_palettes_dir">> ELSE <<>>)
    \o (IF search_cwd THEN <<"cwd">> ELSE <<>>)

\* found_palettes: the files of the directories in turn, a later file
\* replacing an earlier one of the same name
RECURSIVE SetItems(_, _)
SetItems(d, items) ==
    IF items = <<>> THEN d
    ELSE SetItems(SetItem(d, Head(items)[1], Head(items)[2]), Tail(items))

RECURSIVE FoundPalettes(_, _, _)
FoundPalettes(found, dirs, fs) ==
    IF dirs = <<>> THEN found
    ELSE FoundPalettes(SetItems(found, fs[Head(dirs)]), Tail(dirs), fs)

\* tuple.__ne__ / str.__ne__, which colour values inherit: the contents differ
Ne(self, other) == self.val # other.val

\* a colour name the palette already has: warn when the values differ
Met(st, palette_name, c_name, new_color) ==
    IF Ne(new_color, Item(st.self.color_dict, c_name)) /\ st.warnings
    THEN [st EXCEPT !.warned = Append(@, <<c_name, palette_name>>)]
    ELSE st

\* the outcome of palette_obj.add inside the loop
Added(st, r) == [st EXCEPT !.self = r.self, !.exc = r.exc]

\* one colour of one palette file, new_color being what _from_rgba returned
LoadColor(st, palette_name, c_name, new_color) ==
    IF IsErr(new_color) THEN [st EXCEPT !.exc = new_color]
    ELSE IF c_name \notin Keys(st.self.color_dict)
    THEN Added(st, Palette_add(st.self, c_name, new_color))
    ELSE Met(st, palette_name, c_name, new_color)

\* c_rgba parsed and handed to color_format._from_rgba
ColorOfText(F, rgba) ==
    IF \E i \in 1..4 : IsErr(rgba[i]) THEN Err("ValueError")
    ELSE ColorFormat_from_rgba(F, rgba)

RECURSIVE LoadColors(_, _, _)
LoadColors(st, palette_name, items) ==
    IF st.exc # None \/ items = <<>> THEN st
    ELSE LoadColors(LoadColor(st, palette_name, Head(items)[1],
                              ColorOfText(st.self.color_format, LoadedRgba(Head(items)[2]))),
                    palette_name, Tail(items))

RECURSIVE LoadPalettes(_, _, _)
LoadPalettes(st, found, names) ==
    IF st.exc # None \/ names = <<>> THEN st
    ELSE IF Head(names) \notin Keys(found) THEN [st EXCEPT !.exc = Err("KeyError")]
    ELSE LoadPalettes(LoadColors(st, Head(names), Item(found, Head(names))),
                      found, Tail(names))

\* the palettes to read: one name, a list of names, or all that were found
PaletteNames(palettes, found) ==
    IF palettes = None THEN KeyList(found)
    ELSE IF "str" \in DOMAIN palettes THEN <<palettes.str>>
    ELSE palettes.list

\* Palette.load(palettes, search_builtins, search_cwd, color_format, warnings):
\* the palette built (self), the warnings emitted (warned), the exception
Palette_load_found(found, palettes, color_format, warn) ==
    LoadPalettes([self |-> EmptyPalette(color_format), warned |-> <<>>,
                  exc |-> None, warnings |-> warn],
                 found, PaletteNames(palettes, found))

Palette_load(fs, palettes, search_builtins, search_cwd, color_format, warn) ==
    Palette_load_found(
        FoundPalettes(<<>>, resolve_palettes_dirs(search_builtins, search_cwd), fs),
        palettes, color_format, warn)

-----------------------------------------------------------------------------
(* The palette specification: a Palette, a second one, and the methods add, *)
(* update, remove and &                                                     *)

HalfBlue == New("RGB", <<I(0), I(0), I(1), R(1, 2)>>, "include_a" :> TRUE)

ColorNames == {"red", "blue", "add", "_color_dict"}

PaletteColors ==
    { Str(<<"f", "0", "0">>), [tup |-> <<I(0), I(255), I(0)>>],
      Str(<<"r", "e", "d">>), HalfBlue }

PaletteFormats == {None, ColorFormat("RGB", "max_rgb" :> I(255) @@ "include_a" :> TRUE)}

InitialDicts ==
    { <<>>,
      << <<"red", Str(<<"f", "0", "0">>)>> >>,
      << <<"blue", HalfBlue>>, <<"red", Str(<<"0", "0", "f", "f", "0", "0">>)>> >>,
      << <<"green", Str(<<"0", "f", "0">>)>>, <<"white", Str(<<"f", "f", "f">>)>> >> }

InitPalette ==
    /\ DEFAULT_COLOR_FORMAT = ColorFormat("Hex", NoKw)
    /\ fmt = NoVal
    /\ call1 = NoVal
    /\ call2 = NoVal
    /\ c1 = NoVal
    /\ c2 = NoVal
    /\ res = None
    /\ first = NoVal
    /\ op = "init"
    /\ steps = 0
    /\ \E d \in InitialDicts, F \in PaletteFormats :
          palette = Palette_init([dict |-> d], F)
    /\ \E d \in InitialDicts : palette2 = Palette_init([dict |-> d], None)
    /\ files = NoVal
    /\ warnings = <<>>
    /\ grad = NoVal

\* the parts of the state no palette method touches
Untouched == UNCHANGED <<DEFAULT_COLOR_FORMAT, fmt, call2, c1, c2, first, steps, grad>>

\* what a method leaves: self as it is now, and the exception or None
Called(method, r) ==
    /\ op' = method
    /\ palette' = r.self
    /\ res' = r.exc
    /\ Untouched

\* palette.add(name, color)
PaletteAdd ==
    \E name \in ColorNames, color \in PaletteColors :
        /\ Called("add", Palette_add(palette, name, color))
        /\ call1' = [self |-> palette, name |-> name, color |-> color]
        /\ UNCHANGED <<palette2, files, warnings>>

\* palette.update(name, color)
PaletteUpdate ==
    \E name \in ColorNames, color \in PaletteColors :
        /\ Called("update", Palette_update(palette, name, color))
        /\ call1' = [self |-> palette, name |-> name, color |-> color]
        /\ UNCHANGED <<palette2, files, warnings>>

\* palette.remove(name)
PaletteRemove ==
    \E name \in ColorNames :
        /\ Called("remove", Palette_remove(palette, name))
        /\ call1' = [self |-> palette, name |-> name]
        /\ UNCHANGED <<palette2, files, warnings>>

\* what p & q leaves: both operands and the value or the exception
Joined(r) ==
    /\ palette' = r.self
    /\ palette2' = r.other
    /\ res' = r.value

\* res = palette & palette2
PaletteAnd ==
    /\ op' = "and"
    /\ Joined(Palette_and(palette, palette2))
    /\ call1' = [self |-> palette, other |-> palette2]
    /\ UNCHANGED <<files, warnings>>
    /\ Untouched

NextPalette == PaletteAdd \/ PaletteUpdate \/ PaletteRemove \/ PaletteAnd

SpecPalette == InitPalette /\ [][NextPalette]_vars

-----------------------------------------------------------------------------
(* Properties of the palette specification                                  *)

\* the palette before the last call, and the colour the call was given, as
\* the palette's format stores it
Before == call1.self
Given == ColorFormat_format(Before.color_format, call1.color)

\* the items of d other than the one named k, in order
Others(d, k) == SelectSeq(d, LAMBDA e : e[1] # k)

Reserved == dir_Palette \cup {"_color_format", "_color_dict"}

\* C16: add raises ValueError for a name in use or reserved, update and
\* remove raise ValueError for a name that is no colour of the palette; a
\* call that raises (also because the colour cannot be formatted) leaves the
\* palette as it was; a successful add appends one name, a successful update
\* replaces the value of that name only, a successful remove deletes that
\* name only.
C16_NameDiscipline ==
    /\ op = "add" =>
          IF call1.name \in Keys(Before.color_dict) \cup Reserved
          THEN res = Err("ValueError") /\ palette = Before
          ELSE IF IsErr(Given) THEN IsErr(res) /\ palette = Before
          ELSE /\ res = None
               /\ palette.color_dict = Append(Before.color_dict, <<call1.name, Given>>)
    /\ op = "update" =>
          IF call1.name \notin Keys(Before.color_dict)
          THEN res = Err("ValueError") /\ palette = Before
          ELSE IF IsErr(Given) THEN IsErr(res) /\ palette = Before
          ELSE /\ res = None
               /\ KeyList(palette.color_dict) = KeyList(Before.color_dict)
               /\ Item(palette.color_dict, call1.name) = Given
               /\ Others(palette.color_dict, call1.name) = Others(Before.color_dict, call1.name)
    /\ op = "remove" =>
          IF call1.name \notin Keys(Before.color_dict)
          THEN res = Err("ValueError") /\ palette = Before
          ELSE /\ res = None
               /\ palette.color_dict = Others(Before.color_dict, call1.name)
    /\ op \in {"add", "update", "remove"} => palette.color_format = Before.color_format

C16_Witness ==
    /\ op = "update"
    /\ call1.name = "red"
    /\ Len(Before.color_dict) = 2
    /\ IsErr(Given)
    /\ res = Err("FormatError")
    /\ palette = Before

\* the names of both operands of the last &
Shared == Keys(call1.self.color_dict) \cap Keys(call1.other.color_dict)

\* C17: p & q is a new palette in the format of p that holds the colours of
\* p and then those of q, under their names; a name of both raises an
\* exception; p and q are left as they were.
C17_Join ==
    op = "and" =>
        /\ palette = call1.self
        /\ palette2 = call1.other
        /\ IF Shared # {} THEN IsErr(res)
           ELSE /\ ~IsErr(res)
                /\ res.color_format = palette.color_format
                /\ KeyList(res.color_dict)
                       = KeyList(palette.color_dict) \o KeyList(palette2.color_dict)
                /\ \A i \in DOMAIN res.color_dict :
                      /\ res.color_dict[i][2].sys = palette.color_format.color_sys
                      /\ res.color_dict[i][2].rgba
                           = (palette.color_dict \o palette2.color_dict)[i][2].rgba

C17_Witness ==
    /\ op = "and"
    /\ Shared = {}
    /\ Len(palette.color_dict) = 2
    /\ Len(palette2.color_dict) = 2
    /\ palette.color_format.color_sys = "RGB"
    /\ ~IsErr(res)
    /\ Len(res.color_dict) = 4

C17_SharedWitness ==
    /\ op = "and"
    /\ Shared # {}
    /\ res = Err("ValueError")

-----------------------------------------------------------------------------
(* The palette file specification: a Palette, the palette files of the      *)
(* three directories, save and load                                         *)

\* file contents: colour names and '#' + four pairs of digits
Text(p1, p2, p3, p4) == <<"#">> \o p1 \o p2 \o p3 \o p4
FF == <<"f", "f">>
OO == <<"0", "0">>

InitialFiles ==
    [ palettes_dir |->
        << <<"test1", << <<"red", Text(FF, FF, OO, OO)>>, <<"green", Text(FF, OO, FF, OO)>> >> >>,
           <<"test2", << <<"green", Text(FF, OO, FF, OO)>>, <<"red", Text(<<"8", "0">>, FF, OO, OO)>>,
                         <<"blue", Text(FF, OO, OO, FF)>> >> >>,
           <<"test3", << <<"red", Text(FF, OO, OO, FF)>>, <<"save", Text(FF, OO, OO, OO)>> >> >> >>,
      builtin_palettes_dir |->
        << <<"basic", << <<"red", Text(FF, FF, OO, OO)>>, <<"blue", Text(FF, OO, OO, FF)>> >> >> >>,
      cwd |-> <<>> ]

SaveNames == {"basic", "saved"}

LoadCall(palettes, search_builtins, search_cwd, color_format, warn) ==
    [palettes |-> palettes, search_builtins |-> search_builtins,
     search_cwd |-> search_cwd, color_format |-> color_format, warnings |-> warn]

LoadCalls ==
    { LoadCall([str |-> n], b, TRUE, F, TRUE) :
          n \in {"saved", "basic"}, b \in BOOLEAN, F \in PaletteFormats }
    \cup { LoadCall([list |-> l], FALSE, FALSE, F, w) :
          l \in {<<"test1", "test2">>, <<"test2", "test1">>, <<"test1", "test3">>},
          F \in PaletteFormats, w \in BOOLEAN }
    \cup { LoadCall(None, b, b, None, FALSE) : b \in BOOLEAN }
    \cup { LoadCall([list |-> <<"test2", "missing">>], TRUE, TRUE, None, TRUE) }

SavedDicts ==
    { <<>>,
      << <<"red", Str(<<"f", "0", "0">>)>> >>,
      << <<"blue", HalfBlue>>, <<"red", Str(<<"0", "0", "f", "f", "0", "0">>)>> >> }

InitFiles ==
    /\ DEFAULT_COLOR_FORMAT = ColorFormat("Hex", NoKw)
    /\ fmt = NoVal
    /\ call1 = NoVal
    /\ call2 = NoVal
    /\ c1 = NoVal
    /\ c2 = NoVal
    /\ res = None
    /\ first = NoVal
    /\ op = "init"
    /\ steps = 0
    /\ \E d \in SavedDicts, F \in PaletteFormats :
          palette = Palette_init([dict |-> d], F)
    /\ palette2 = None
    /\ files = InitialFiles
    /\ warnings = <<>>
    /\ grad = NoVal

\* palette.save(name)
PaletteSave ==
    \E name \in SaveNames :
        /\ op' = "save"
        /\ files' = Palette_save(palette, name, files)
        /\ res' = None
        /\ call1' = [name |-> name]
        /\ UNCHANGED <<palette, palette2, warnings>>
        /\ Untouched

\* what Palette.load leaves: the palette returned, the warnings, the exception
Returned(r) ==
    /\ palette2' = IF r.exc = None THEN r.self ELSE None
    /\ warnings' = r.warned
    /\ res' = r.exc

\* palette2 = Palette.load(palettes, search_builtins=..., search_cwd=...,
\*                         color_format=..., warnings=...)
PaletteLoad ==
    \E call \in LoadCalls :
        /\ op' = "load"
        /\ Returned(Palette_load(files, call.palettes, call.search_builtins,
                                 call.search_cwd, call.color_format, call.warnings))
        /\ call1' = call
        /\ UNCHANGED <<palette, files>>
        /\ Untouched

NextFiles == PaletteSave \/ PaletteLoad

SpecFiles == InitFiles /\ [][NextFiles]_vars

-----------------------------------------------------------------------------
(* Properties of the palette file specification                             *)

\* the file that save(name) wrote, when the last call was save
SavedFile == Item(files.palettes_dir, call1.name)

\* the four pairs of digits after '#', as numbers
Pairs(text) ==
    [k \in 1..4 |-> IF Len(text) = 9 /\ text[1] = "#" THEN PairAt(NoHash(text), 2 * k - 1) ELSE -1]

\* every colour of the palette is written as '#' and four pairs of digits
\* that are its channels in the order `order`
WrittenAs(order) ==
    op = "save" =>
        /\ KeyList(SavedFile) = KeyList(palette.color_dict)
        /\ \A i \in DOMAIN SavedFile :
              Pairs(SavedFile[i][2]) = [k \in 1..4 |-> palette.color_dict[i][2].rgba[order[k]]]

\* the last call loaded one palette by name, in the palette's own format,
\* and the file of that name in the default directory is what save writes
LoadedBack ==
    /\ op = "load"
    /\ "str" \in DOMAIN call1.palettes
    /\ call1.palettes.str \in Keys(files.palettes_dir)
    /\ Item(files.palettes_dir, call1.palettes.str) = FormattedColors(palette)
    /\ EmptyPalette(call1.color_format).color_format = palette.color_format

\* another directory that load searches holds a palette of that name
Shadowed ==
    \/ call1.search_builtins /\ call1.palettes.str \in Keys(files.builtin_palettes_dir)
    \/ call1.search_cwd /\ call1.palettes.str \in Keys(files.cwd)

\* same names in the same order, same canonical channels, alpha included
SamePalette(p, q) ==
    /\ Palette_eq(p, q)
    /\ KeyList(p.color_dict) = KeyList(q.color_dict)
    /\ \A i \in DOMAIN p.color_dict : p.color_dict[i][2].rgba = q.color_dict[i][2].rgba

\* C14 as stated: save writes '#RRGGBBAA', the layout the specification
\* names, and load of a saved palette by its name gives back an equal palette
\* whatever the name.
C14_Original ==
    /\ WrittenAs(<<1, 2, 3, 4>>)
    /\ LoadedBack => (res = None /\ palette2 # None /\ SamePalette(palette2, palette))

\* C14: save writes every colour as '#' and eight hex digits, the alpha pair
\* first (#AARRGGBB); load of a saved palette by its name, with the palette's
\* format, gives back the same names and the same channels, alpha included,
\* unless a searched directory other than the default one holds a palette
\* of that name.
C14_SaveLoad ==
    /\ WrittenAs(<<4, 1, 2, 3>>)
    /\ (LoadedBack /\ ~Shadowed)
           => (res = None /\ palette2 # None /\ SamePalette(palette2, palette))

C14_Witness ==
    /\ LoadedBack
    /\ ~Shadowed
    /\ call1.palettes.str = "saved"
    /\ Len(palette.color_dict) = 2
    /\ palette.color_dict[1][2].rgba = <<0, 0, 255, 128>>
    /\ palette2 # None
    /\ SamePalette(palette2, palette)

\* the definitions read by the last load, as <<i, j>>: colour j of the i-th
\* palette named
ReadNames ==
    PaletteNames(call1.palettes,
                 FoundPalettes(<<>>, resolve_palettes_dirs(call1.search_builtins,
                                                          call1.search_cwd), files))
ReadFile(i) ==
    Item(FoundPalettes(<<>>, resolve_palettes_dirs(call1.search_builtins,
                                                  call1.search_cwd), files),
         ReadNames[i])
Defs == UNION { {<<i, j>> : j \in DOMAIN ReadFile(i)} : i \in DOMAIN ReadNames }
DefName(x) == ReadFile(x[1])[x[2]][1]
DefRgba(x) == LoadedRgba(ReadFile(x[1])[x[2]][2])
Earlier(x, y) == x[1] < y[1] \/ (x[1] = y[1] /\ x[2] < y[2])
FirstDef(name) ==
    CHOOSE x \in Defs : DefName(x) = name /\ \A y \in Defs : DefName(y) = name => ~Earlier(y, x)

\* the first definition of every name is the one kept
FirstKept ==
    /\ Keys(palette2.color_dict) = {DefName(x) : x \in Defs}
    /\ \A x \in Defs :
          Channels(Item(palette2.color_dict, DefName(x))) = DefRgba(FirstDef(DefName(x)))

\* the later definitions whose canonical channels differ from the first one's
Conflicts ==
    { <<DefName(x), ReadNames[x[1]]>> :
        x \in {y \in Defs : DefRgba(y) # DefRgba(FirstDef(DefName(y)))} }

\* C15 as stated: after a load of several palettes every name has the value
\* of its first definition, and the warnings are exactly the later
\* definitions with a different colour value when warnings=True, none
\* otherwise.
C15_Original ==
    (op = "load" /\ res = None) =>
        /\ FirstKept
        /\ Range(warnings) = IF call1.warnings THEN Conflicts ELSE {}

-----------------------------------------------------------------------------
(* StackPalette (colorir/palette.py): _color_format and _color_stack        *)

EmptyStack(color_format) ==
    [color_format |-> IF color_format = None THEN DEFAULT_COLOR_FORMAT ELSE color_format,
     color_stack |-> <<>>]

\* the position list.insert(i, x) uses (0-based)
InsertAt(stack, i) ==
    IF i < 0 THEN (IF i + Len(stack) < 0 THEN 0 ELSE i + Len(stack))
    ELSE IF i > Len(stack) THEN Len(stack) ELSE i

\* list.insert(i, x)
Insert(stack, i, x) ==
    SubSeq(stack, 1, InsertAt(stack, i)) \o <<x>>
    \o SubSeq(stack, InsertAt(stack, i) + 1, Len(stack))

\* variant: the colour is pushed on the front
Inserted_front(self, i, color) ==
    IF IsErr(color) THEN Raise(self, color)
    ELSE Done([self EXCEPT !.color_stack = <<color>> \o @])

\* self._color_stack.insert(i, color), unless formatting the colour raised
Inserted(self, i, color) ==
    IF IsErr(color) THEN Raise(self, color)
    ELSE Done([self EXCEPT !.color_stack =
                   Insert(@, IF i = None THEN Len(@) ELSE i.n, color)])

\* StackPalette.add(color, i=None)
StackPalette_add(self, color, i) ==
    Inserted(self, i, ColorFormat_format(self.color_format, color))

\* self._color_stack[index] = color, unless formatting the colour raised
Assigned(self, index, color) ==
    IF IsErr(color) THEN Raise(self, color)
    ELSE IF index >= Len(self.color_stack) \/ index < -Len(self.color_stack)
    THEN Raise(self, Err("IndexError"))
    ELSE Done([self EXCEPT !.color_stack[IF index < 0 THEN index + Len(self.color_stack) + 1
                                         ELSE index + 1] = color])

\* StackPalette.update(index, color)
StackPalette_update(self, index, color) ==
    Assigned(self, index, ColorFormat_format(self.color_format, color))

\* StackPalette.remove(): list.pop()
StackPalette_remove(self) ==
    IF self.color_stack = <<>> THEN Raise(self, Err("IndexError"))
    ELSE Done([self EXCEPT !.color_stack = SubSeq(@, 1, Len(@) - 1)])

\* range(a, b)
RangeList(a, b) == [k \in 1..(IF b > a THEN b - a ELSE 0) |-> a + k - 1]

\* HSV(hue, s, v) with the defaults of HSV
HSVOf(hue, s, v) == HSV_new(Bind("HSV", <<hue, s, v>>, NoKw))

\* variant: the step is counted from the position in the palette
WheelHue_positional(h, step, i, index) == RMod(RAdd(h, RMul(I(index), step)), I(360))

\* hue = (hsv[0] + i * step) % 360; index is the position enumerate gives
WheelHue(h, step, i, index) == RMod(RAdd(h, RMul(I(i), step)), I(360))

\* for index, i in enumerate(iterator): n_spalette.add(HSV(hue, hsv[1], hsv[2]))
RECURSIVE Wheel(_, _, _, _, _)
WheelRest(r, hsv, step, iterator, index) ==
    IF r.exc # None THEN r ELSE Wheel(r.self, hsv, step, iterator, index)
Wheel(self, hsv, step, iterator, index) ==
    IF index > Len(iterator) THEN Done(self)
    ELSE WheelRest(StackPalette_add(self,
                       HSVOf(WheelHue(hsv.val[1], step, iterator[index], index - 1),
                             hsv.val[2], hsv.val[3]),
                       None),
                   hsv, step, iterator, index + 1)

\* the colour the hues start from: the colour given, in the format of the
\* palette, or the random colour when none is given
StartColor(self, color, random) ==
    IF color = None THEN random ELSE ColorFormat_format(self.color_format, color)

\* color.hsv(max_h=360)
hsv360(color) == HSV_from_rgba(Channels(color), "max_h" :> I(360))

\* the palette of the colours around the wheel, or the exception raised
\* when the starting colour could not be formatted
WheelFrom(self, start_color, step, iterator) ==
    IF IsErr(start_color) THEN start_color
    ELSE Built(Wheel(self, hsv360(start_color), step, iterator, 1))

\* new_complementary once the starting colour is known: step = 360 / n
ComplementaryFrom(self, start_color, n) ==
    IF IsErr(start_color) THEN start_color
    ELSE IF n = 0 THEN Err("ZeroDivisionError")
    ELSE WheelFrom(self, start_color, R(360, n), RangeList(0, n))

\* StackPalette.new_complementary(n, color, color_format)
new_complementary(n, color, color_format, random) ==
    ComplementaryFrom(EmptyStack(color_format),
                      StartColor(EmptyStack(color_format), color, random), n)

\* the iterator of new_analogous
AnalogousRange(n, start) ==
    IF start = 0 THEN RangeList(-(n \div 2), -(n \div 2) + n)
    ELSE IF start = 1 THEN RangeList(0, n)
    ELSE RangeList(-n + 1, 1)

\* StackPalette.new_analogous(n, sections, start, color, color_format)
new_analogous(n, sections, start, color, color_format, random) ==
    IF n > sections THEN Err("ValueError")
    ELSE IF start \notin {-1, 0, 1} THEN Err("ValueError")
    ELSE WheelFrom(EmptyStack(color_format),
                   StartColor(EmptyStack(color_format), color, random),
                   R(360, sections), AnalogousRange(n, start))

-----------------------------------------------------------------------------
(* The stack palette specification: a StackPalette with add, update and     *)
(* remove, and the palettes new_complementary and new_analogous build       *)

MaxStack == 3

StackColors ==
    { Str(<<"f", "0", "0">>), Str(<<"r", "e", "d">>), HalfBlue }

Indexes == {-1, 0, 1, MaxStack}

InitStack ==
    /\ DEFAULT_COLOR_FORMAT = ColorFormat("Hex", NoKw)
    /\ fmt = NoVal
    /\ call1 = NoVal
    /\ call2 = NoVal
    /\ c1 = NoVal
    /\ c2 = NoVal
    /\ res = None
    /\ first = NoVal
    /\ op = "init"
    /\ steps = 0
    /\ \E F \in PaletteFormats : palette = EmptyStack(F)
    /\ palette2 = None
    /\ files = NoVal
    /\ warnings = <<>>
    /\ grad = NoVal

\* palette.add(color) or palette.add(color, 0)
StackAdd ==
    \E color \in StackColors, i \in {None, I(0)} :
        /\ Len(palette.color_stack) < MaxStack
        /\ Called("add", StackPalette_add(palette, color, i))
        /\ call1' = [self |-> palette, color |-> color, i |-> i]
        /\ UNCHANGED <<palette2, files, warnings>>

\* palette.update(index, color)
StackUpdate ==
    \E index \in Indexes, color \in StackColors :
        /\ Called("update", StackPalette_update(palette, index, color))
        /\ call1' = [self |-> palette, color |-> color, index |-> index]
        /\ UNCHANGED <<palette2, files, warnings>>

\* palette.remove()
StackRemove ==
    /\ Called("remove", StackPalette_remove(palette))
    /\ call1' = [self |-> palette]
    /\ UNCHANGED <<palette2, files, warnings>>

NextStack == StackAdd \/ StackUpdate \/ StackRemove

SpecStack == InitStack /\ [][NextStack]_vars

-----------------------------------------------------------------------------
(* Properties of the stack palette specification                            *)

\* the stack before the last call
StackBefore == call1.self.color_stack

\* the 1-based position a Python index names in the stack before the call
Position(index) == IF index < 0 THEN index + Len(StackBefore) + 1 ELSE index + 1

\* what the last add, update or remove did to the stack
StackStep ==
    /\ (op = "add" /\ call1.i = None) =>
          IF IsErr(Given) THEN IsErr(res) /\ palette = Before
          ELSE /\ res = None
               /\ palette.color_stack = Append(StackBefore, Given)
               /\ Len(palette.color_stack) = Len(StackBefore) + 1
    /\ (op = "remove" /\ StackBefore # <<>>) =>
          /\ res = None
          /\ Len(palette.color_stack) = Len(StackBefore) - 1
          /\ StackBefore = Append(palette.color_stack, StackBefore[Len(StackBefore)])
    /\ (op = "update" /\ Position(call1.index) \in DOMAIN StackBefore) =>
          IF IsErr(Given) THEN IsErr(res) /\ palette = Before
          ELSE /\ res = None
               /\ Len(palette.color_stack) = Len(StackBefore)
               /\ \A k \in DOMAIN StackBefore :
                     palette.color_stack[k]
                         = IF k = Position(call1.index) THEN Given ELSE StackBefore[k]
    /\ op \in {"add", "update", "remove"} => palette.color_format = Before.color_format

\* a remove() right after a successful add(c) gives back the stack as it
\* was before the add
AddThenRemove ==
    (op = "add" /\ call1.i = None /\ res = None /\ op' = "remove")
        => (res' = None /\ palette' = call1.self)

\* C18: add(color) without an index appends the formatted colour and makes
\* the stack one longer, remove() takes away exactly the last colour,
\* update(index, color) changes the element at that index only and keeps
\* the length; a remove() right after an add(c) restores the contents.
C18_Stack == []StackStep /\ [][AddThenRemove]_vars

C18_Witness ==
    /\ op = "remove"
    /\ res = None
    /\ Len(StackBefore) = MaxStack
    /\ StackBefore[1].rgba # StackBefore[MaxStack].rgba
    /\ palette.color_stack = SubSeq(StackBefore, 1, MaxStack - 1)

-----------------------------------------------------------------------------
(* The colour wheel specification: one call of new_complementary or of      *)
(* new_analogous                                                            *)

WheelColors ==
    { None, Str(<<"f", "0", "0">>), Str(<<"r", "e", "d">>),
      New("HSV", <<I(200), R(1, 2), R(1, 2)>>, NoKw) }

\* what random_color may return
RandomColors ==
    { HSV_from_rgba(<<I(0), I(128), I(255), I(255)>>, "max_h" :> I(360)),
      HSV_from_rgba(<<I(255), I(255), I(255), I(255)>>, "max_h" :> I(360)) }

Counts == 0..4
Sections == {3, 12}
Starts == {-1, 0, 1, 2}

WheelCalls ==
    { [method |-> "new_complementary", n |-> n, color |-> color, color_format |-> F] :
          n \in Counts, color \in WheelColors, F \in PaletteFormats }
    \cup { [method |-> "new_analogous", n |-> n, sections |-> sections, start |-> start,
            color |-> color, color_format |-> F] :
          n \in Counts, sections \in Sections, start \in Starts,
          color \in WheelColors, F \in PaletteFormats }

InitWheel ==
    /\ DEFAULT_COLOR_FORMAT = ColorFormat("Hex", NoKw)
    /\ fmt = NoVal
    /\ call1 \in WheelCalls
    /\ call2 = NoVal
    /\ c1 = NoVal
    /\ c2 = NoVal
    /\ res = None
    /\ first = NoVal
    /\ op = "init"
    /\ steps = 0
    /\ palette = None
    /\ palette2 = None
    /\ files = NoVal
    /\ warnings = <<>>
    /\ grad = NoVal

\* what a class method leaves: the palette it returned, or the exception;
\* c1 keeps the colour random_color returned
Made(r, random) ==
    /\ op' = call1.method
    /\ palette' = IF IsErr(r) THEN None ELSE r
    /\ res' = IF IsErr(r) THEN r ELSE None
    /\ c1' = random
    /\ UNCHANGED <<DEFAULT_COLOR_FORMAT, fmt, call1, call2, c2, first, steps,
                   palette2, files, warnings, grad>>

\* palette = StackPalette.new_complementary(n, color, color_format)
NewComplementary ==
    /\ op = "init"
    /\ call1.method = "new_complementary"
    /\ \E random \in RandomColors :
          Made(new_complementary(call1.n, call1.color, call1.color_format, random), random)

\* palette = StackPalette.new_analogous(n, sections, start, color, color_format)
NewAnalogous ==
    /\ op = "init"
    /\ call1.method = "new_analogous"
    /\ \E random \in RandomColors :
          Made(new_analogous(call1.n, call1.sections, call1.start, call1.color,
                             call1.color_format, random), random)

NextWheel == NewComplementary \/ NewAnalogous

SpecWheel == InitWheel /\ [][NextWheel]_vars

-----------------------------------------------------------------------------
(* Properties of the colour wheel specification                             *)

\* the colour the hues start from, and its hue, saturation and value
Base ==
    IF call1.color = None THEN c1
    ELSE ColorFormat_format(EmptyStack(call1.color_format).color_format, call1.color)
BaseHSV == hsv360(Base).val

\* the first multiple of the step, by the start argument
FirstIndex == IF call1.start = 0 THEN -(call1.n \div 2)
              ELSE IF call1.start = 1 THEN 0 ELSE -(call1.n - 1)

\* the colour of hue (h + i * 360 / parts) mod 360 with the saturation and
\* value of the base
Turned(i, parts) ==
    HSVOf(RMod(RAdd(BaseHSV[1], R(i * 360, parts)), I(360)), BaseHSV[2], BaseHSV[3])

\* the palette returned holds n colours, the k-th equal to the base turned
\* by (from + k - 1) parts of the wheel
Holds(n, from, parts) ==
    /\ res = None
    /\ palette # None
    /\ palette.color_format = EmptyStack(call1.color_format).color_format
    /\ Len(palette.color_stack) = n
    /\ \A k \in 1..n :
          /\ palette.color_stack[k].sys = palette.color_format.color_sys
          /\ palette.color_stack[k].rgba = Turned(from + k - 1, parts).rgba

-----------------------------------------------------------------------------
(* Colour arithmetic (colorir/color_class.py)                                *)

\* operator.add, sub, mul, truediv on two numbers
Operate(foo, x, y) ==
    CASE foo = "add" -> RAdd(x, y)
      [] foo = "sub" -> RSub(x, y)
      [] foo = "mul" -> RMul(x, y)
      [] foo = "truediv" -> IF y.n = 0 THEN Err("ZeroDivisionError") ELSE RDiv(x, y)

\* tuple(map(foo, xs, ys)): as long as the shorter of the two; the exception
\* of the first element that raises
MapResult(vals) ==
    IF \E k \in DOMAIN vals : IsErr(vals[k]) THEN Err("ZeroDivisionError")
    ELSE [tup |-> vals]

Map2(foo, xs, ys) ==
    MapResult([k \in 1..(IF Len(xs) < Len(ys) THEN Len(xs) ELSE Len(ys)) |->
                  Operate(foo, xs[k], ys[k])])

\* np.append(255 - self._rgba[:-1], self._rgba[-1])
Inverse(self) ==
    <<I(255 - self.rgba[1]), I(255 - self.rgba[2]), I(255 - self.rgba[3]), I(self.rgba[4])>>

\* variant: every channel is taken from 255, the alpha channel included
ColorBase_invert_whole(self) ==
    ColorFormat_from_rgba(FormatOf(self), [i \in 1..4 |-> I(255 - self.rgba[i])])

\* ColorBase.__invert__
ColorBase_invert(self) == ColorFormat_from_rgba(FormatOf(self), Inverse(self))

\* The conversions to and from CIELuv are those of the colormath package the
\* library carries, which is outside the sources read here.  The gray level
\* of CIELuv(c.cieluv().l, 0, 0) is taken from the documented results
\* (Palette.grayscale: red gives #7f7f7f, yellow #f7f7f7); a colour with three
\* equal channels has u = v = 0 and is its own gray.
GrayLevels ==
    << <<(<<255, 0, 0>>), 127>>, <<(<<255, 255, 0>>), 247>>,
       <<(<<0, 0, 0>>), 0>>, <<(<<255, 255, 255>>), 255>>, <<(<<128, 128, 128>>), 128>> >>

HasGrayLevel(color) == \E k \in DOMAIN GrayLevels : GrayLevels[k][1] = SubSeq(color.rgba, 1, 3)

GrayLevel(color) ==
    GrayLevels[CHOOSE k \in DOMAIN GrayLevels : GrayLevels[k][1] = SubSeq(color.rgba, 1, 3)][2]

\* CIELuv(self.cieluv().l, 0, 0): a is not given, so the value is opaque
CIELuv_gray(self) ==
    [sys |-> "CIELuv", val |-> <<[l |-> GrayLevel(self)], I(0), I(0)>>,
     rgba |-> <<GrayLevel(self), GrayLevel(self), GrayLevel(self), 255>>,
     a |-> I(1), params |-> NoKw]

\* The colour half way between two colours along the straight line of CIELuv,
\* from the documented result of Grad.perc (red and blue give #be0090); two
\* equal colours give that colour.
LuvMiddles == << <<(<<255, 0, 0, 255>>), (<<0, 0, 255, 255>>), (<<190, 0, 144, 255>>)>> >>

HasMiddle(color1, color2) ==
    \/ color1.rgba = color2.rgba
    \/ \E k \in DOMAIN LuvMiddles :
          LuvMiddles[k][1] = color1.rgba /\ LuvMiddles[k][2] = color2.rgba

LuvMiddle(color1, color2) ==
    IF color1.rgba = color2.rgba THEN color1.rgba
    ELSE LuvMiddles[CHOOSE k \in DOMAIN LuvMiddles :
                        LuvMiddles[k][1] = color1.rgba /\ LuvMiddles[k][2] = color2.rgba][3]

\* utils.blend(color1, color2) once Grad has formatted both colours:
\* Grad([color1, color2]).perc(0.5), a value of the default format
Blended(colors) ==
    IF IsErr(colors[1]) THEN colors[1]
    ELSE IF IsErr(colors[2]) THEN colors[2]
    ELSE ColorFormat_from_rgba(DEFAULT_COLOR_FORMAT,
                               [i \in 1..4 |-> I(LuvMiddle(colors[1], colors[2])[i])])

\* One step of a method applied to the value x in hand:
\*   [format |-> F]            F.format(x)
\*   [map |-> foo, with |-> ys] tuple(map(foo, x, ys))
\*   [raise |-> e]             raise e
\*   [invert |-> TRUE]         ~x
\*   [gray |-> TRUE]           CIELuv(x.cieluv().l, 0, 0)
\*   [blend |-> y]             Grad([x, y]).perc(0.5), x formatted already
\* An exception in hand passes through every later step.
RECURSIVE Stepped(_, _)
Stepped(step, x) ==
    IF IsErr(x) THEN x
    ELSE IF "raise" \in DOMAIN step THEN Err(step.raise)
    ELSE IF "map" \in DOMAIN step THEN Map2(step.map, x.val, step.with)
    ELSE IF "invert" \in DOMAIN step THEN ColorBase_invert(x)
    ELSE IF "gray" \in DOMAIN step THEN CIELuv_gray(x)
    ELSE IF "blend" \in DOMAIN step
    THEN Blended(<<x, Stepped([format |-> DEFAULT_COLOR_FORMAT], step.blend)>>)
    ELSE ColorFormat_format(step.format, x)

RECURSIVE Evaluated(_, _)
Evaluated(stmts, x) ==
    IF stmts = <<>> THEN x ELSE Evaluated(Tail(stmts), Stepped(Head(stmts), x))

\* variant: the result is left in the right operand's format
ColorBase_arithm_func_unreturned(self, other, foo) ==
    IF ~IsColorTuple(other) THEN << [raise |-> "ValueError"] >>
    ELSE << [format |-> FormatOf(other)],
            [map |-> foo, with |-> other.val],
            [format |-> FormatOf(other)] >>

\* ColorBase._arithm_func, as the steps it takes on self:
\*   vals = tuple(map(foo, other.format.format(self), other))
\*   return self.format.format(other.format.format(vals))
ColorBase_arithm_func(self, other, foo) ==
    IF ~IsColorTuple(other) THEN << [raise |-> "ValueError"] >>
    ELSE << [format |-> FormatOf(other)],
            [map |-> foo, with |-> other.val],
            [format |-> FormatOf(other)],
            [format |-> FormatOf(self)] >>

\* ColorTupleBase._tup_arithm_func, as the steps it takes on self; map over
\* an object that is not iterable is a TypeError
ColorTupleBase_tup_arithm_func(self, other, foo) ==
    IF ~IsColorBase(other)
    THEN (IF "tup" \in DOMAIN other
          THEN << [map |-> foo, with |-> other.tup],
                  [format |-> FormatOf(self)] >>
          ELSE << [raise |-> "TypeError"] >>)
    ELSE ColorBase_arithm_func(self, other, foo)

\* self + other, self - other, self * other, self / other: Hex inherits the
\* operators of ColorBase, the tuple-based classes override them
Arithmetic(self, other, foo) ==
    Evaluated(IF IsColorTuple(self)
              THEN ColorTupleBase_tup_arithm_func(self, other, foo)
              ELSE ColorBase_arithm_func(self, other, foo), self)

-----------------------------------------------------------------------------
(* The arithmetic specification: a colour, a right operand, one operation   *)

Operators == {"add", "sub", "mul", "truediv"}

LeftColors ==
    { New("RGB", <<I(1), R(1, 2), I(0)>>, NoKw),
      New("RGB", <<I(255), I(0), I(0), I(128)>>,
          "max_rgb" :> I(255) @@ "max_a" :> I(255) @@ "include_a" :> TRUE @@ "round_to" :> 0),
      New("HSV", <<I(0), I(1), I(1)>>, NoKw),
      New("HSL", <<I(120), R(1, 2), R(1, 2)>>, "round_to" :> 2),
      New("Hex", <<Str(<<"#", "f", "f", "8", "0", "0", "0">>)>>, NoKw) }

RightOperands ==
    { [tup |-> <<I(1), R(1, 2), I(1)>>], [tup |-> <<I(0), I(0), I(0)>>],
      [tup |-> <<R(1, 2), R(1, 2)>>], [tup |-> <<I(1), I(1), I(1), I(1)>>],
      [tup |-> <<I(2), I(2), I(2)>>], I(2),
      New("HSL", <<I(1), R(1, 2), I(1)>>, NoKw),
      New("RGB", <<R(1, 2), R(1, 2), R(1, 2), R(1, 2)>>, "include_a" :> TRUE),
      New("RGB", <<I(0), I(0), I(0)>>, NoKw),
      New("HSV", <<I(30), I(0), I(0)>>, "max_sva" :> I(100)),
      New("Hex", <<Str(<<"#", "0", "0", "0", "0", "0", "0">>)>>, NoKw) }

InitArith ==
    /\ DEFAULT_COLOR_FORMAT = ColorFormat("Hex", NoKw)
    /\ fmt = NoVal
    /\ call1 = NoVal
    /\ call2 = NoVal
    /\ c1 \in LeftColors
    /\ c2 \in RightOperands
    /\ res = NoVal
    /\ first = NoVal
    /\ op = "init"
    /\ steps = 0
    /\ palette = NoVal
    /\ palette2 = NoVal
    /\ files = NoVal
    /\ warnings = <<>>
    /\ grad = NoVal

\* res = c1 + c2, c1 - c2, c1 * c2 or c1 / c2
Operation ==
    \E foo \in Operators :
        /\ res' = Arithmetic(c1, c2, foo)
        /\ op' = foo
        /\ UNCHANGED <<DEFAULT_COLOR_FORMAT, fmt, call1, call2, c1, c2, first, steps, pvars>>

NextArith == Operation

SpecArith == InitArith /\ [][NextArith]_vars

-----------------------------------------------------------------------------
(* Properties of the arithmetic specification                               *)

\* the operation on each component of xs with the component of ys below it
Componentwise(foo, xs, ys) == [k \in DOMAIN xs |-> Operate(foo, xs[k], ys[k])]

\* no component is divided by zero
Divides(foo, ys) == foo = "truediv" => \A k \in DOMAIN ys : ys[k].n # 0

\* x is a colour of the left operand's system and format parameters, or the
\* FormatError of a result that system refuses
LikeLeft(x) == IF IsErr(x) THEN x = Err("FormatError")
               ELSE x.sys = c1.sys /\ x.params = c1.params

\* the right operand is a plain tuple with a number for every component
PlainRight == "tup" \in DOMAIN c2 /\ ~IsColorBase(c2)

\* the result for a plain tuple: the left colour's components, operated on
\* and read again in the left colour's format
OnOwnComponents ==
    res = FormatIter(FormatOf(c1), [tup |-> Componentwise(op, c1.val, c2.tup)])

\* the value in the right operand's format, taken back to the left's
TakenBack(inRight) ==
    IF IsErr(inRight) THEN res = Err("FormatError")
    ELSE res = ColorFormat_from_rgba(FormatOf(c1), Channels(inRight))

\* the result for a tuple-based colour c2, given the left colour converted
\* into the format of c2
ThroughRight(converted) ==
    TakenBack(wrap_format_error(
        ColorFormat_new_color(FormatOf(c2), Componentwise(op, converted.val, c2.val), NoKw)))

\* C19: for +, -, *, / on a colour c1 and a right operand c2 (no component
\* divided by zero): if c2 is a plain tuple with a number for every component
\* of a tuple-based c1, the result is the operation applied to the components
\* of c1 itself, read in the format of c1; if c2 is a tuple-based colour, c1
\* is converted into the format of c2, the operation is applied there and the
\* result is converted back; both results have the system and the format
\* parameters of c1; a Hex right operand, and a plain tuple to the right of a
\* Hex colour, raise ValueError.
C19_Arithmetic ==
    (op \in Operators) =>
        /\ (IsColorTuple(c1) /\ PlainRight /\ Len(c2.tup) >= Len(c1.val) /\ Divides(op, c2.tup))
              => (OnOwnComponents /\ LikeLeft(res))
        /\ (IsColorTuple(c2) /\ Divides(op, c2.val))
              => (ThroughRight(ColorFormat_from_rgba(FormatOf(c2), Channels(c1))) /\ LikeLeft(res))
        /\ (IsColorBase(c2) /\ ~IsColorTuple(c2)) => res = Err("ValueError")
        /\ (IsColorBase(c1) /\ ~IsColorTuple(c1) /\ PlainRight) => res = Err("ValueError")

\* RGB(1, 0.5, 0) * HSL(1, 0.5, 1) halves the saturation: an RGB colour again
C19_Witness ==
    /\ op = "mul"
    /\ c1 = New("RGB", <<I(1), R(1, 2), I(0)>>, NoKw)
    /\ c2 = New("HSL", <<I(1), R(1, 2), I(1)>>, NoKw)
    /\ IsColorBase(res) /\ res.sys = "RGB"
    /\ res.rgba = <<191, 128, 64, 255>>

\* HSV(0, 1, 1) * (1, 0.5, 1) halves the saturation of red
C19_PlainWitness ==
    /\ op = "mul"
    /\ c1 = New("HSV", <<I(0), I(1), I(1)>>, NoKw)
    /\ c2 = [tup |-> <<I(1), R(1, 2), I(1)>>]
    /\ IsColorBase(res) /\ res.sys = "HSV"
    /\ res.rgba = <<255, 128, 128, 255>>

\* Hex("#ff8000") + (1, 0.5, 1) and RGB(1, 0.5, 0) - Hex("#000000")
C19_HexWitness ==
    /\ op \in Operators
    /\ res = Err("ValueError")
    /\ PlainRight \/ IsColorTuple(c1)

-----------------------------------------------------------------------------
(* Gradients (colorir/gradient.py)                                          *)

PolarSystems == {"HSL", "HSV"}

HueLerps == {None, Str("increment"), Str("decrement"), Str("shortest"), Str("longest")}

\* np.linspace(a, b, n)
Linspace(a, b, n) ==
    [k \in 1..n |-> IF n = 1 THEN a
                    ELSE RAdd(a, RDiv(RMul(I(k - 1), RSub(b, a)), I(n - 1)))]

\* [self.color_format.format(color) for color in value], or the first
\* exception raised
FormattedList(F, value) ==
    [i \in DOMAIN value |-> ColorFormat_format(F, value[i])]

\* Grad._update_conv_colors for one colour of self._colors
ConvColor(color_sys, color) ==
    FromRgba(color_sys, Channels(color), "include_a" :> TRUE @@ "round_to" :> -1)

\* the gradient object once the colors setter has run on the formatted list
GradWith(self, formatted) ==
    IF \E i \in DOMAIN formatted : IsErr(formatted[i])
    THEN formatted[CHOOSE i \in DOMAIN formatted :
                      IsErr(formatted[i]) /\ \A j \in 1..(i - 1) : ~IsErr(formatted[j])]
    ELSE [self EXCEPT !.colors = formatted,
                      !.conv_colors = [i \in DOMAIN formatted |->
                                          ConvColor(self.color_sys, formatted[i])]]

\* the format the constructor stores
StoredFormat(color_format, default) ==
    IF color_format = None THEN default ELSE color_format

\* Grad.__init__ with color_coords=None and discrete as given
Grad_init(cls, colors, color_sys, color_format, domain, discrete, hue_lerp, default) ==
    IF color_sys = "Hex" THEN Err("ValueError")
    ELSE IF ~RLt(domain[1], domain[2]) THEN Err("ValueError")
    ELSE GradWith([cls |-> cls,
                   color_sys |-> color_sys,
                   color_format |-> StoredFormat(color_format, default),
                   domain |-> domain,
                   color_coords |-> Linspace(domain[1], domain[2], Len(colors)),
                   discrete |-> discrete,
                   hue_lerp |-> hue_lerp,
                   colors |-> <<>>,
                   conv_colors |-> <<>>],
                  FormattedList(StoredFormat(color_format, default), colors))

\* PolarGrad.__init__
PolarGrad_init(colors, color_sys, hue_lerp, color_format, domain, discrete, default) ==
    IF color_sys \notin PolarSystems THEN Err("ValueError")
    ELSE IF hue_lerp \notin HueLerps THEN Err("ValueError")
    ELSE Grad_init("PolarGrad", colors, color_sys, color_format, domain, discrete,
                   hue_lerp, default)

\* array1 + (array2 - array1) * p, component by component
Lerp(array1, array2, p) ==
    [k \in DOMAIN array1 |-> RAdd(array1[k], RMul(RSub(array2[k], array1[k]), p))]

\* Grad._linear_interp
Grad_linear_interp(self, color1, color2, p) ==
    New(self.color_sys, Lerp(color1.val, color2.val, p), NoKw)

\* abs(color1.h - color2.h)
HueDistance(color1, color2) ==
    IF RLe(color2.val[1], color1.val[1]) THEN RSub(color1.val[1], color2.val[1])
    ELSE RSub(color2.val[1], color1.val[1])

\* the first branch of PolarGrad._linear_interp: plain interpolation
Straight(hue_lerp, d, max_h) ==
    \/ hue_lerp = None
    \/ hue_lerp = Str("shortest") /\ RLe(d, RDiv(max_h, I(2)))
    \/ hue_lerp = Str("longest") /\ ~RLe(d, RDiv(max_h, I(2)))

\* array1, array2 = array2, array1 and p = 1 - p
Swapped(hue_lerp, color1, color2) ==
    \/ hue_lerp = Str("increment")
    \/ hue_lerp # Str("decrement") /\ RLt(color2.val[1], color1.val[1])

\* variant: the hue is turned by a whole wheel but never reduced
AroundWheel_unreduced(array1, array2, p, max_h) ==
    Lerp([array1 EXCEPT ![1] = RAdd(array1[1], max_h)], array2, p)

\* array1[0] += max_h; new_color = array1 + (array2 - array1) * p;
\* new_color[0] %= max_h
AroundWheel(array1, array2, p, max_h) ==
    [Lerp([array1 EXCEPT ![1] = RAdd(array1[1], max_h)], array2, p)
        EXCEPT ![1] = RMod(@, max_h)]

\* PolarGrad._linear_interp
PolarGrad_linear_interp(self, color1, color2, p) ==
    IF Straight(self.hue_lerp, HueDistance(color1, color2), color1.params.max_h)
    THEN Grad_linear_interp(self, color1, color2, p)
    ELSE New(self.color_sys,
             IF Swapped(self.hue_lerp, color1, color2)
             THEN AroundWheel(color2.val, color1.val, RSub(I(1), p), color1.params.max_h)
             ELSE AroundWheel(color1.val, color2.val, p, color1.params.max_h),
             NoKw)

\* self._linear_interp of the class of the gradient
LinearInterp(self, color1, color2, p) ==
    IF self.cls = "PolarGrad" THEN PolarGrad_linear_interp(self, color1, color2, p)
    ELSE Grad_linear_interp(self, color1, color2, p)

\* np.digitize(x, color_coords): how many coordinates are <= x
Digitize(x, color_coords) == Cardinality({k \in DOMAIN color_coords : RLe(color_coords[k], x)})

\* self.color_format._from_rgba(color._rgba), or the exception in hand
Output(self, color) ==
    IF IsErr(color) THEN color ELSE ColorFormat_from_rgba(self.color_format, Channels(color))

\* the colour Grad.at returns for the segment ending at the colour of
\* 0-based index i >= 1, p being the position inside the segment
Picked(self, i, p) ==
    IF RLt(I(1), p) THEN self.conv_colors[Len(self.conv_colors)]
    ELSE IF self.discrete THEN self.conv_colors[i + RInt(p)]
    ELSE LinearInterp(self, self.conv_colors[i], self.conv_colors[i + 1], p)

\* i = min(np.digitize(x, self.color_coords), len(self._colors) - 1)
SegmentOf(self, x) ==
    IF Digitize(x, self.color_coords) < Len(self.colors) - 1
    THEN Digitize(x, self.color_coords) ELSE Len(self.colors) - 1

\* Grad.at(x, restrict_domain)
Grad_at(self, x, restrict_domain) ==
    IF restrict_domain /\ (RLt(x, self.domain[1]) \/ RLt(self.domain[2], x))
    THEN Err("ValueError")
    ELSE IF SegmentOf(self, x) = 0 THEN Output(self, self.conv_colors[1])
    ELSE Output(self,
             Picked(self, SegmentOf(self, x),
                    RDiv(RSub(x, self.color_coords[SegmentOf(self, x)]),
                         RSub(self.color_coords[SegmentOf(self, x) + 1],
                              self.color_coords[SegmentOf(self, x)]))))

-----------------------------------------------------------------------------
(* The gradient specification: one gradient, interpolated at several points *)

\* red, yellow, cyan, blue, magenta: the hues 0, 60, 180, 240, 300
HueStrings ==
    { Str(<<"f", "0", "0">>), Str(<<"f", "f", "0">>), Str(<<"0", "f", "f">>),
      Str(<<"0", "0", "f">>), Str(<<"f", "0", "f">>) }

GradCall(cls, colors, color_sys, hue_lerp, color_format, discrete) ==
    [cls |-> cls, colors |-> colors, color_sys |-> color_sys, hue_lerp |-> hue_lerp,
     color_format |-> color_format, discrete |-> discrete]

UnitDomain == <<I(0), I(1)>>

GradCalls ==
    { GradCall("PolarGrad", <<a, b>>, "HSV", h, None, FALSE) :
          a \in HueStrings, b \in HueStrings, h \in HueLerps }
    \cup
    { GradCall("PolarGrad", <<Str(<<"f", "0", "0">>), Str(<<"0", "0", "f">>)>>, sys, h,
               None, FALSE) :
          sys \in {"HSL", "RGB"}, h \in {Str("shortest"), Str("sideways")} }
    \cup
    { GradCall(cls, colors, "HSV", None, F, d) :
          cls \in {"Grad", "PolarGrad"},
          colors \in { <<Str(<<"f", "0", "0">>)>>,
                       <<Str(<<"f", "0", "0">>), Str(<<"r", "e", "d">>)>>,
                       <<HalfBlue, Str(<<"0", "f", "0">>), [tup |-> <<I(1), I(1), I(1)>>]>> },
          F \in {None, ColorFormat("RGB", "include_a" :> TRUE)},
          d \in BOOLEAN }
    \cup
    { GradCall("Grad", <<Str(<<"f", "0", "0">>), Str(<<"0", "0", "f">>)>>, sys, None,
               None, FALSE) : sys \in {"RGB", "Hex"} }

\* cls(colors, color_sys=..., hue_lerp=..., color_format=..., discrete=...)
Constructed(call, default) ==
    IF call.cls = "PolarGrad"
    THEN PolarGrad_init(call.colors, call.color_sys, call.hue_lerp, call.color_format,
                        UnitDomain, call.discrete, default)
    ELSE Grad_init("Grad", call.colors, call.color_sys, call.color_format,
                   UnitDomain, call.discrete, None, default)

InitGrad ==
    /\ DEFAULT_COLOR_FORMAT = ColorFormat("Hex", NoKw)
    /\ fmt = NoVal
    /\ call1 \in GradCalls
    /\ call2 = NoVal
    /\ c1 = NoVal
    /\ c2 = NoVal
    /\ res = NoVal
    /\ first = NoVal
    /\ op = "init"
    /\ steps = 0
    /\ palette = NoVal
    /\ palette2 = NoVal
    /\ files = NoVal
    /\ warnings = <<>>
    /\ grad = Constructed(call1, DEFAULT_COLOR_FORMAT)

Portions == {I(0), R(1, 4), R(1, 2), R(3, 4), I(1)}

Points == Portions \cup {R(-1, 2), R(3, 2)}

\* res = grad._linear_interp(grad._conv_colors[0], grad._conv_colors[1], p)
Interpolate ==
    \E p \in Portions :
        /\ ~IsErr(grad) /\ Len(grad.conv_colors) >= 2
        /\ res' = LinearInterp(grad, grad.conv_colors[1], grad.conv_colors[2], p)
        /\ call2' = p
        /\ op' = "_linear_interp"
        /\ UNCHANGED <<DEFAULT_COLOR_FORMAT, fmt, call1, c1, c2, first, steps, pvars>>

\* res = grad.at(x, restrict_domain)
At ==
    \E x \in Points, restrict_domain \in BOOLEAN :
        /\ ~IsErr(grad)
        /\ res' = Grad_at(grad, x, restrict_domain)
        /\ call2' = x
        /\ op' = "at"
        /\ UNCHANGED <<DEFAULT_COLOR_FORMAT, fmt, call1, c1, c2, first, steps, pvars>>

NextGrad == Interpolate \/ At

SpecGrad == InitGrad /\ [][NextGrad]_vars

-----------------------------------------------------------------------------
(* Properties of the gradient specification                                 *)

\* the hues of the two colours interpolated, the wheel they lie on and the
\* hue of the colour _linear_interp returned
Hue1 == grad.conv_colors[1].val[1]
Hue2 == grad.conv_colors[2].val[1]
MaxH == grad.conv_colors[1].params.max_h
HueOut == res.val[1]

\* a polar gradient has just interpolated with the given hue_lerp
Lerped(hue_lerp) ==
    /\ op = "_linear_interp"
    /\ grad.cls = "PolarGrad"
    /\ grad.hue_lerp = Str(hue_lerp)

\* the two arcs that lead from Hue1 to Hue2: forwards and backwards
Forwards == RMod(RSub(Hue2, Hue1), MaxH)
Backwards == RSub(Forwards, MaxH)

\* the length of an arc
Length(arc) == IF RLt(arc, I(0)) THEN RNeg(arc) ELSE arc

\* the hue returned lies on the arc, at the portion p of it
Along(arc) == HueOut = RMod(RAdd(Hue1, RMul(arc, call2)), MaxH)

\* the ends of the interpolation and the range of the hue
EndsAndRange ==
    /\ ~IsErr(res)
    /\ RLe(I(0), HueOut) /\ RLt(HueOut, MaxH)
    /\ call2 = I(0) => HueOut = Hue1
    /\ call2 = I(1) => HueOut = RMod(Hue2, MaxH)

\* C21: with hue_lerp 'shortest' the interpolated hue lies on an arc from h1
\* to h2 of length at most max_h / 2, with 'longest' on one of length at least
\* max_h / 2; in both modes it is h1 at p = 0 and h2 (mod max_h) at p = 1 and
\* always within [0, max_h).
C21_ShortestLongest ==
    /\ Lerped("shortest") =>
          /\ EndsAndRange
          /\ \E arc \in {Forwards, Backwards} :
                RLe(Length(arc), RDiv(MaxH, I(2))) /\ Along(arc)
    /\ Lerped("longest") =>
          /\ EndsAndRange
          /\ \E arc \in {Forwards, Backwards} :
                RLe(RDiv(MaxH, I(2)), Length(arc)) /\ Along(arc)

\* red to blue the short way: half way lies magenta, hue 300
C21_Witness ==
    /\ Lerped("shortest")
    /\ Hue1 = I(0) /\ Hue2 = I(240)
    /\ call2 = R(1, 2)
    /\ HueOut = I(300)

\* red to blue the long way: half way lies green, hue 120
C21_LongestWitness ==
    /\ Lerped("longest")
    /\ Hue1 = I(0) /\ Hue2 = I(240)
    /\ call2 = R(1, 2)
    /\ HueOut = I(120)

\* the arcs 'increment' and 'decrement' may take: the forward arc and the
\* backward arc, a full turn when the two hues are equal
Upwards == {Forwards} \cup (IF Hue1 = Hue2 THEN {MaxH} ELSE {})
Downwards == {Backwards}

\* C27: with hue_lerp 'increment' the hue only increases (modulo max_h) from
\* h1 at p = 0 to h2 at p = 1, with 'decrement' it only decreases, and the
\* angle swept between p = 0 and p = 1 is at most one full turn.
C27_Original ==
    /\ Lerped("increment") =>
          (EndsAndRange /\ \E arc \in Upwards : Along(arc))
    /\ Lerped("decrement") =>
          (EndsAndRange /\ \E arc \in Downwards : Along(arc))

-----------------------------------------------------------------------------
(* The canonical channels of every value                                    *)

\* x, if a colour value, carries four integer channels within [0, 255]
Canonical(x) ==
    IsColorBase(x) => (Len(x.rgba) = 4 /\ \A i \in 1..4 : x.rgba[i] \in 0..255)

\* C22: every colour value a constructor returns carries a canonical
\* representation of exactly four integer channels, each within [0, 255].
C22_Original == Canonical(c1) /\ Canonical(c2)

-----------------------------------------------------------------------------
(* The comparison specification: a colour, an operand, == and !=            *)

\* self != other: no class of the library defines __ne__, so the one of tuple
\* or str is found first; each compares contents when other is of its own
\* kind, and two objects neither of which can compare with the other differ
NotEq(self, other) ==
    IF IsColorTuple(self)
    THEN IF "tup" \in DOMAIN other \/ IsColorTuple(other)
         THEN self.val # IterOf(other) ELSE TRUE
    ELSE IF IsStr(other) THEN self.val # StrOf(other) ELSE TRUE

Max255 == "max_rgb" :> I(255)

Reds ==
    { New("Hex", <<Str(<<"#", "f", "f", "0", "0", "0", "0">>)>>, NoKw),
      New("RGB", <<I(1), I(0), I(0)>>, NoKw),
      New("RGB", <<I(255), I(0), I(0)>>, Max255),
      New("HSV", <<I(0), I(1), I(1)>>, NoKw) }

ComparedColors ==
    Reds \cup
    { New("Hex", <<Str(<<"#", "F", "F", "0", "0", "0", "0">>)>>, NoKw),
      New("RGB", <<I(1), I(0), I(0)>>, Max255),
      New("RGB", <<I(1), I(0), I(0), R(1, 2)>>, NoKw),
      New("HSL", <<I(0), I(1), I(1)>>, NoKw) }

ComparedLikes ==
    { Str(<<"f", "f", "0", "0", "0", "0">>), Str(<<"#", "F", "F", "0", "0", "0", "0">>),
      Str(<<"f", "0", "0">>), Str(<<"#", "f", "f", "0", "0", "0", "0">>),
      Str(<<"r", "e", "d">>), Str(<<"0", "0", "f">>),
      [tup |-> <<I(1), I(0), I(0)>>], [tup |-> <<I(255), I(0), I(0)>>],
      [tup |-> <<I(0), I(1), I(1)>>], [tup |-> <<I(1), I(0)>>], I(5) }

InitEq ==
    /\ DEFAULT_COLOR_FORMAT \in Presets
    /\ fmt = NoVal
    /\ call1 = NoVal
    /\ call2 = NoVal
    /\ c1 \in Reds
    /\ c2 \in ComparedColors \cup ComparedLikes
    /\ res = NoVal
    /\ first = NoVal
    /\ op = "init"
    /\ steps = 0
    /\ palette = NoVal
    /\ palette2 = NoVal
    /\ files = NoVal
    /\ warnings = <<>>
    /\ grad = NoVal

\* res = (c1 == c2); first keeps what the default format makes of c2
Equal ==
    /\ res' = [eq |-> Eq(c1, c2)]
    /\ first' = Interpreted(<<c2>>)[1]
    /\ op' = "eq"
    /\ UNCHANGED <<DEFAULT_COLOR_FORMAT, fmt, call1, call2, c1, c2, steps, pvars>>

\* res = (c1 != c2)
NotEqual ==
    /\ res' = [ne |-> NotEq(c1, c2)]
    /\ op' = "ne"
    /\ UNCHANGED <<DEFAULT_COLOR_FORMAT, fmt, call1, call2, c1, c2, first, steps, pvars>>

NextEq == Equal \/ NotEqual

SpecEq == InitEq /\ [][NextEq]_vars

-----------------------------------------------------------------------------
(* Properties of the comparison specification                               *)

\* C28: for any two colour values a and b, a != b is the negation of a == b:
\* colours with equal rounded canonical channels are never reported as
\* different.
C28_Original ==
    (op = "ne" /\ IsColorBase(c2)) =>
        /\ res.ne = ~Eq(c1, c2)
        /\ SameChannels(c1, c2) => ~res.ne

\* C29: c == x for a colour-like x that is not a colour value is True whenever
\* the default format interprets x as a colour with the rounded canonical
\* channels of c; when x cannot be formatted the result is that of plain string
\* or tuple equality.
C29_Original ==
    (op = "eq" /\ ~IsColorBase(c2)) =>
        IF IsColorBase(first) THEN SameChannels(c1, first) => res.eq
        ELSE res.eq = (IF c1.sys = "Hex" THEN StrEq(c1, c2) ELSE TupleEq(c1, c2))

-----------------------------------------------------------------------------
(* Operators of palettes (colorir/palette.py).  An operator is a list of    *)
(* jobs, one per colour: the colour and the steps taken on it, the add()    *)
(* of the new palette included.                                             *)

IsPalette(x) == "color_dict" \in DOMAIN x
IsStack(x) == "color_stack" \in DOMAIN x
IsDict(x) == "dict" \in DOMAIN x
IsList(x) == "list" \in DOMAIN x

\* the colours a palette or a single colour holds
ColorsOf(x) ==
    IF IsPalette(x) THEN [i \in DOMAIN x.color_dict |-> x.color_dict[i][2]]
    ELSE IF IsStack(x) THEN x.color_stack ELSE <<x>>

\* ColorBase.grayscale, as the steps it takes on self:
\*   self.format.format(CIELuv(self.cieluv().l, 0, 0))
ColorBase_grayscale(self) == << [gray |-> TRUE], [format |-> FormatOf(self)] >>

\* ColorBase.__mod__: colorir.blend(self, other), that is
\* Grad([self, other]).perc(0.5); the colors setter of Grad formats both
\* colours with the default format
ColorBase_mod(self, other) ==
    << [format |-> DEFAULT_COLOR_FORMAT], [blend |-> other] >>

\* func(colorv) or func(colorv, color2), as steps on colorv
Func(func, colorv, color2) ==
    CASE func = "invert" -> << [invert |-> TRUE] >>
      [] func = "grayscale" -> ColorBase_grayscale(colorv)
      [] func = "mod" -> ColorBase_mod(colorv, color2)
      [] OTHER -> IF IsColorTuple(colorv)
                  THEN ColorTupleBase_tup_arithm_func(colorv, color2, func)
                  ELSE ColorBase_arithm_func(colorv, color2, func)

Job(name, color, todo) == [name |-> name, color |-> color, steps |-> todo]

\* obj.get(colork, None) for a dict, obj itself for a colour-like
Color2(obj, colork) ==
    IF ~IsDict(obj) THEN obj
    ELSE IF colork \in Keys(obj.dict) THEN Item(obj.dict, colork) ELSE None

\* pal.add(name, color) of a new Palette that holds the names before:
\* ValueError for a name in dir(pal), else the colour is formatted
AddSteps(before, name, color_format) ==
    IF name \in Reserved \cup before THEN << [raise |-> "ValueError"] >>
    ELSE << [format |-> color_format] >>

\* Palette._for_each_color(func, obj) on pal = Palette(color_format=
\* self.color_format): pal.add(colork, func(colorv, color2)), or
\* pal.add(colork, colorv) for a name the dict obj does not have
Palette_for_each_color(self, func, obj) ==
    [i \in DOMAIN self.color_dict |->
        Job(self.color_dict[i][1], self.color_dict[i][2],
            (IF IsDict(obj) /\ Color2(obj, self.color_dict[i][1]) = None THEN <<>>
             ELSE Func(func, self.color_dict[i][2], Color2(obj, self.color_dict[i][1])))
            \o AddSteps({self.color_dict[j][1] : j \in 1..(i - 1)},
                        self.color_dict[i][1], self.color_format))]

\* Palette.grayscale: pal.add(c_name, c_val.grayscale())
Palette_grayscale(self) ==
    [i \in DOMAIN self.color_dict |->
        Job(self.color_dict[i][1], self.color_dict[i][2],
            ColorBase_grayscale(self.color_dict[i][2])
            \o AddSteps({self.color_dict[j][1] : j \in 1..(i - 1)},
                        self.color_dict[i][1], self.color_format))]

\* zip(self.colors, obj) for a list, every colour with obj for a colour-like
Zipped(colors, obj) ==
    IF IsList(obj)
    THEN [k \in 1..(IF Len(colors) < Len(obj.list) THEN Len(colors) ELSE Len(obj.list)) |->
             <<colors[k], obj.list[k]>>]
    ELSE [k \in DOMAIN colors |-> <<colors[k], obj>>]

\* StackPalette._for_each_color(func, obj): pal.add(func(color1, color2))
StackPalette_for_each_color(self, func, obj) ==
    [k \in DOMAIN Zipped(self.color_stack, obj) |->
        Job(k, Zipped(self.color_stack, obj)[k][1],
            Func(func, Zipped(self.color_stack, obj)[k][1], Zipped(self.color_stack, obj)[k][2])
            \o << [format |-> self.color_format] >>)]

\* StackPalette.grayscale: pal.add(color.grayscale())
StackPalette_grayscale(self) ==
    [k \in DOMAIN self.color_stack |->
        Job(k, self.color_stack[k],
            ColorBase_grayscale(self.color_stack[k]) \o << [format |-> self.color_format] >>)]

\* Palette.__and__: pal = Palette(self, color_format=self.color_format), then
\* pal.add(c_name, c_val) for every item of other
Palette_and_each(self, other) ==
    [i \in DOMAIN (self.color_dict \o other.color_dict) |->
        Job((self.color_dict \o other.color_dict)[i][1],
            (self.color_dict \o other.color_dict)[i][2],
            AddSteps({(self.color_dict \o other.color_dict)[j][1] : j \in 1..(i - 1)},
                     (self.color_dict \o other.color_dict)[i][1], self.color_format))]

\* StackPalette.__and__: StackPalette(self.colors + other.colors,
\* color_format=self.color_format), whose constructor adds every colour
StackPalette_and_each(self, other) ==
    [k \in DOMAIN (self.color_stack \o other.color_stack) |->
        Job(k, (self.color_stack \o other.color_stack)[k], << [format |-> self.color_format] >>)]

\* most_similar(color, n, method): Palette.most_similar hands color to
\* utils.color_dist, which interprets a colour-like with the default format;
\* StackPalette.most_similar starts with self.color_format.format(color)
Reference(self, color) ==
    << Job(None, color,
           IF IsStack(self) THEN << [format |-> self.color_format] >>
           ELSE IF IsColorBase(color) THEN <<>>
           ELSE << [format |-> DEFAULT_COLOR_FORMAT] >>) >>

\* the jobs of func on a colour value, a Palette or a StackPalette
JobsOf(self, func, obj) ==
    IF func = "most_similar" THEN Reference(self, obj.color)
    ELSE IF IsPalette(self)
    THEN (IF func = "grayscale" THEN Palette_grayscale(self)
          ELSE IF func = "and" THEN Palette_and_each(self, obj)
          ELSE Palette_for_each_color(self, func, obj))
    ELSE IF IsStack(self)
    THEN (IF func = "grayscale" THEN StackPalette_grayscale(self)
          ELSE IF func = "and" THEN StackPalette_and_each(self, obj)
          ELSE StackPalette_for_each_color(self, func, obj))
    ELSE << Job(None, self, Func(func, self, obj)) >>

\* every job done in turn
RunAll(jobs) == [i \in DOMAIN jobs |-> Evaluated(jobs[i].steps, jobs[i].color)]

\* the value returned: the exception of the first job that raised, else the
\* new palette with the colours under the names or in the order of the
\* jobs, else the one colour
Collected(self, jobs, results) ==
    IF \E i \in DOMAIN results : IsErr(results[i])
    THEN results[CHOOSE i \in DOMAIN results :
                    IsErr(results[i]) /\ \A j \in 1..(i - 1) : ~IsErr(results[j])]
    ELSE IF IsPalette(self)
    THEN [color_format |-> self.color_format,
          color_dict |-> [i \in DOMAIN jobs |-> <<jobs[i].name, results[i]>>]]
    ELSE IF IsStack(self)
    THEN [color_format |-> self.color_format, color_stack |-> results]
    ELSE results[1]

\* what an operator leaves: receiver, operand and the value returned
Left(self, obj, value) == [self |-> self, obj |-> obj, value |-> value]

\* variant: the colours are put into the receiver, which is returned
PaletteBase_operator_inplace(self, obj, value) == Left(value, obj, value)

\* an operator of a palette or a colour value: the results go into a new
\* object, self and obj are only read
PaletteBase_operator(self, obj, value) == Left(self, obj, value)

\* for color in colors: self.add(color), up to the first exception
RECURSIVE StackAddAll(_, _)
StackAddRest(r, rest) == IF r.exc # None THEN r ELSE StackAddAll(r.self, rest)
StackAddAll(self, colors) ==
    IF colors = <<>> THEN Done(self)
    ELSE StackAddRest(StackPalette_add(self, Head(colors), None), Tail(colors))

\* StackPalette(colors, color_format)
StackPalette_init(colors, color_format) ==
    Built(StackAddAll(EmptyStack(color_format), colors))

\* Palette.__getitem__ for a list of names: the new palette's dict holds the
\* colours of self under the names, a name listed twice once
Palette_getitem(self, item) ==
    Left(self, item,
         IF \E k \in DOMAIN item.list : item.list[k] \notin Keys(self.color_dict)
         THEN Err("KeyError")
         ELSE [color_format |-> self.color_format,
               color_dict |-> SetItems(<<>>, [k \in DOMAIN item.list |->
                                  <<item.list[k], Item(self.color_dict, item.list[k])>>])])

\* the 1-based position of the 0-based or negative list index i, 0 if none
IndexOf(stack, i) ==
    IF i >= Len(stack) \/ i < -Len(stack) THEN 0
    ELSE IF i < 0 THEN i + Len(stack) + 1 ELSE i + 1

\* StackPalette.__getitem__ for a list of indexes
StackPalette_getitem(self, item) ==
    Left(self, item,
         IF \E k \in DOMAIN item.list : IndexOf(self.color_stack, item.list[k]) = 0
         THEN Err("IndexError")
         ELSE [color_format |-> self.color_format,
               color_stack |-> [k \in DOMAIN item.list |->
                                   self.color_stack[IndexOf(self.color_stack, item.list[k])]]])

\* sorted(xs, key=...): the elements by ascending key, equal keys in the
\* order they had; keys[i] is the square of the distance of xs[i]
Rank(keys, i) ==
    Cardinality({j \in DOMAIN keys : RLt(keys[j], keys[i]) \/ (keys[j] = keys[i] /\ j <= i)})
Sorted(xs, keys) == [r \in DOMAIN xs |-> xs[CHOOSE i \in DOMAIN xs : Rank(keys, i) = r]]

\* the keys of most_similar for method "simplified": simplified_dist(color, c)
\* is the root of WeightedSquares, which orders as its argument does
Distances(color, colors) ==
    [i \in DOMAIN colors |-> WeightedSquares(color.rgba, colors[i].rgba)]

\* closest[:n]
Upto(closest, n) == SubSeq(closest, 1, IF n > Len(closest) THEN Len(closest) ELSE n)

\* Palette.most_similar once color_dist has interpreted color as reference
\* (the exception of the first comparison, if it could not)
PaletteMostSimilar(self, reference, n) ==
    IF self.color_dict # <<>> /\ IsErr(reference) THEN reference
    ELSE IF n = 1
    THEN (IF self.color_dict = <<>> THEN Err("IndexError")
          ELSE [tup |-> Sorted(self.color_dict, Distances(reference, ColorsOf(self)))[1]])
    ELSE [color_format |-> self.color_format,
          color_dict |-> Upto(Sorted(self.color_dict, Distances(reference, ColorsOf(self))),
                              IF n < 1 THEN Len(self.color_dict) ELSE n)]

\* StackPalette.most_similar once color is self.color_format.format(color)
StackMostSimilar(self, color, n) ==
    IF IsErr(color) THEN color
    ELSE IF n = 1
    THEN (IF self.color_stack = <<>> THEN Err("IndexError")
          ELSE Sorted(self.color_stack, Distances(color, self.color_stack))[1])
    ELSE [color_format |-> self.color_format,
          color_stack |-> IF n < 0
                          THEN Sorted(self.color_stack, Distances(color, self.color_stack))
                          ELSE Upto(Sorted(self.color_stack,
                                           Distances(color, self.color_stack)), n)]

\* StackPalette.most_similar(color, n, method="simplified")
\* the value an operator returns once its jobs are done
ValueOf(self, func, obj, jobs, results) ==
    IF func = "most_similar"
    THEN (IF IsPalette(self) THEN PaletteMostSimilar(self, results[1], obj.n)
          ELSE StackMostSimilar(self, results[1], obj.n))
    ELSE Collected(self, jobs, results)

\* StackPalette.resize(n, repeat=True): self[[i % len(self) for i in range(n)]]
StackPalette_resize(self, n) ==
    IF n > 0 /\ self.color_stack = <<>>
    THEN Left(self, None, Err("ZeroDivisionError"))
    ELSE StackPalette_getitem(self, [list |-> [k \in 1..n |-> (k - 1) % Len(self.color_stack)]])

-----------------------------------------------------------------------------
(* The operator specification: a colour value, a Palette or a StackPalette  *)
(* in c1, and the operators applied to it                                   *)

HexRed == New("Hex", <<Str(<<"#", "f", "f", "0", "0", "0", "0">>)>>, NoKw)
HexBlue == New("Hex", <<Str(<<"#", "0", "0", "0", "0", "f", "f">>)>>, NoKw)
GlassRed ==
    New("RGB", <<I(255), I(0), I(0), I(128)>>,
        "max_rgb" :> I(255) @@ "max_a" :> I(255) @@ "include_a" :> TRUE @@ "round_to" :> 0)
Yellow == New("HSV", <<I(60), I(1), I(1), R(1, 2)>>, NoKw)

WithAlpha == ColorFormat("RGB", "max_rgb" :> I(255) @@ "include_a" :> TRUE)

ReceiverColors == {HexRed, GlassRed, Yellow}

\* the arguments of the Palette constructor calls
PaletteArgs ==
    { << [dict |-> << <<"red", Str(<<"f", "f", "0", "0", "0", "0">>)>>,
                      <<"yellow", Str(<<"f", "f", "f", "f", "0", "0">>)>> >>], None >>,
      << [dict |-> << <<"red", Str(<<"f", "0", "0">>)>>,
                      <<"blue", Str(<<"0", "0", "f">>)>> >>], None >>,
      << [dict |-> << <<"glass", GlassRed>>, <<"white", Str(<<"f", "f", "f">>)>>,
                      <<"black", Str(<<"0", "0", "0">>)>> >>], WithAlpha >> }

\* the arguments of the StackPalette constructor calls
StackArgs ==
    { << <<Str(<<"f", "f", "0", "0", "0", "0">>), Str(<<"0", "0", "0", "0", "f", "f">>)>>,
         None >>,
      << <<Str(<<"0", "0", "0">>), GlassRed, Str(<<"f", "f", "f">>)>>, WithAlpha >> }

ReceiverPalettes == { Palette_init(args[1], args[2]) : args \in PaletteArgs }

ReceiverStacks == { StackPalette_init(args[1], args[2]) : args \in StackArgs }

Half3 == [tup |-> <<R(1, 2), R(1, 2), R(1, 2)>>]

\* right operands of + - * /: plain tuples and colour values
Addends ==
    { Half3, [tup |-> <<I(2), I(2), I(2), I(2)>>],
      New("RGB", <<I(0), I(0), R(1, 2)>>, NoKw),
      New("HSV", <<I(30), I(0), I(0), I(1)>>, "include_a" :> TRUE) }

\* per-colour operands: a dict for a Palette, a list for a StackPalette
DictAddends == { [dict |-> << <<"red", Half3>>, <<"grey", Half3>> >>] }
ListAddends == { [list |-> <<Half3, New("RGB", <<I(0), I(0), R(1, 2)>>, NoKw)>>] }

AddendsOf(self) ==
    Addends \cup (IF IsPalette(self) THEN DictAddends
                  ELSE IF IsStack(self) THEN ListAddends ELSE {})

References == {HexBlue, Str(<<"0", "0", "f">>), Str(<<"b", "l", "u", "e">>)}

NameLists == { [list |-> <<"red">>], [list |-> <<"blue", "red", "blue">>], [list |-> <<>>] }
IndexLists == { [list |-> <<0>>], [list |-> <<-1, 0, 0>>], [list |-> <<5>>] }

Sizes == {0, 1, 3}

HowMany == {-1, 1, 2}

\* c1 is the receiver; c2 is a second palette, the right operand of &
InitOps ==
    /\ DEFAULT_COLOR_FORMAT = ColorFormat("Hex", NoKw)
    /\ fmt = NoVal
    /\ call1 = NoVal
    /\ call2 = NoVal
    /\ \E palettes \in {ReceiverPalettes}, stacks \in {ReceiverStacks} :
          /\ c1 \in ReceiverColors \cup palettes \cup stacks
          /\ c2 \in palettes \cup stacks
    /\ res = NoVal
    /\ first = NoVal
    /\ op = "init"
    /\ steps = 0
    /\ palette = NoVal
    /\ palette2 = NoVal
    /\ files = NoVal
    /\ warnings = <<>>
    /\ grad = NoVal

\* what a call with the operand obj leaves in c1, c2 and res
Operated(method, obj, r) ==
    /\ op' = method
    /\ call2' = obj
    /\ c1' = r.self
    /\ c2' = r.obj
    /\ res' = r.value
    /\ UNCHANGED <<DEFAULT_COLOR_FORMAT, fmt, call1, first, steps, pvars>>

\* the operators that compute colours, with their right operands: ~c1,
\* c1 + obj, c1 - obj, c1 * obj, c1 / obj, c1 % obj, c1.grayscale(),
\* c1 & c2 for two palettes of one class, and
\* c1.most_similar(color, n, method="simplified")
Calls ==
    { <<"invert", None>> }
    \cup (Operators \X AddendsOf(c1))
    \cup { <<"mod", obj>> : obj \in
              IF \A k \in DOMAIN ColorsOf(c1) : HasMiddle(ColorsOf(c1)[k], HexBlue)
              THEN References ELSE {} }
    \cup (IF \A k \in DOMAIN ColorsOf(c1) : HasGrayLevel(ColorsOf(c1)[k])
          THEN { <<"grayscale", None>> } ELSE {})
    \cup (IF (IsPalette(c1) /\ IsPalette(c2)) \/ (IsStack(c1) /\ IsStack(c2))
          THEN { <<"and", c2>> } ELSE {})
    \cup (IF IsPalette(c1) \/ IsStack(c1)
          THEN { <<"most_similar", [color |-> color, n |-> n]>> :
                    color \in References, n \in HowMany }
          ELSE {})

\* res = func(c1) or func(c1, obj) for one of the operators above
Operator ==
    \E call \in Calls :
        /\ op = "init"
        /\ \E jobs \in {JobsOf(c1, call[1], call[2])} :
              \E results \in {RunAll(jobs)} :
                  \E value \in {ValueOf(c1, call[1], call[2], jobs, results)} :
                      Operated(call[1], call[2], PaletteBase_operator(c1, call[2], value))

\* res = c1[item] for a list of names or indexes
Select ==
    \E item \in (IF IsPalette(c1) THEN NameLists ELSE IF IsStack(c1) THEN IndexLists ELSE {}) :
        /\ op = "init"
        /\ Operated("getitem", item,
                    IF IsPalette(c1) THEN Palette_getitem(c1, item)
                    ELSE StackPalette_getitem(c1, item))

\* res = c1.resize(n, repeat=True)
Resize ==
    \E n \in Sizes :
        /\ op = "init"
        /\ IsStack(c1)
        /\ Operated("resize", I(n), [StackPalette_resize(c1, n) EXCEPT !.obj = I(n)])

NextOps == Operator \/ Select \/ Resize

SpecOps == InitOps /\ [][NextOps]_vars

-----------------------------------------------------------------------------
(* The color_format of a palette: item assignment and the setters of        *)
(* color_format (colorir/palette.py)                                        *)

\* keys of item assignment: a str or an int
NameKey(name) == [name |-> name]
IndexKey(i) == [index |-> i]

\* Palette.__setitem__ once formatted is what the format gives for value
Palette_setitem(self, key, formatted) ==
    IF "name" \notin DOMAIN key THEN Raise(self, Err("TypeError"))
    ELSE IF key.name \in Keys(self.color_dict) THEN Palette_updated(self, key.name, formatted)
    ELSE Palette_added(self, key.name, formatted)

\* StackPalette.__setitem__ for an int key, and for a key that is none of
\* int, list and slice
StackPalette_setitem(self, key, formatted) ==
    IF "index" \in DOMAIN key THEN Assigned(self, key.index, formatted)
    ELSE Raise(self, Err("TypeError"))

\* color_format._from_rgba(c._rgba) for every colour, or the first exception
Recreated(color_format, colors) ==
    [k \in DOMAIN colors |-> ColorFormat_from_rgba(color_format, Channels(colors[k]))]

\* self with its colours replaced one by one
WithColors(self, colors) ==
    IF IsPalette(self)
    THEN [self EXCEPT !.color_dict = [k \in DOMAIN @ |-> <<@[k][1], colors[k]>>]]
    ELSE [self EXCEPT !.color_stack = colors]

\* variant: the setter of PaletteBase alone, the colours stay as they are
color_format_fset_only(self, color_format, recreated) ==
    Done([self EXCEPT !.color_format = color_format])

\* the setters of Palette.color_format and StackPalette.color_format:
\* PaletteBase.color_format.fset assigns _color_format, then the colours are
\* re-created; an exception of _from_rgba leaves the new format with the
\* colours there were
color_format_fset(self, color_format, recreated) ==
    IF \E k \in DOMAIN recreated : IsErr(recreated[k])
    THEN Raise([self EXCEPT !.color_format = color_format],
               recreated[CHOOSE k \in DOMAIN recreated :
                            IsErr(recreated[k]) /\ \A j \in 1..(k - 1) : ~IsErr(recreated[j])])
    ELSE Done(WithColors([self EXCEPT !.color_format = color_format], recreated))

\* cls(color_format=color_format) with no colours
NewPalette(cls, color_format) ==
    IF cls = "Palette" THEN EmptyPalette(color_format) ELSE EmptyStack(color_format)

-----------------------------------------------------------------------------
(* The store specification: a Palette or StackPalette and a Grad, the       *)
(* methods that store colours, and assignments of color_format and of       *)
(* config.DEFAULT_COLOR_FORMAT                                              *)

MaxOps == 2

\* a format whose keyword its colour system does not take
Uppercased == ColorFormat("RGB", "uppercase" :> TRUE)

StoreFormats == {ColorFormat("Hex", NoKw), WithAlpha, Uppercased}

StoreColors == {Str(<<"f", "0", "0">>), GlassRed}

StoreNames == {"red", "blue"}

\* how an object was made: the color_format argument and the default read
MadeWith(color_format, default) == [color_format |-> color_format, default |-> default]

\* Grad(["f00", "00f"], color_sys=RGB, color_format=color_format)
NewGrad(color_format, default) ==
    Grad_init("Grad", <<Str(<<"f", "0", "0">>), Str(<<"0", "0", "f">>)>>, "RGB",
              color_format, UnitDomain, FALSE, None, default)

\* palette is a Palette or StackPalette just made and grad a Grad just made;
\* palette2 and c2 tell how
InitStore ==
    /\ DEFAULT_COLOR_FORMAT \in Presets
    /\ fmt \in {None, WithAlpha}
    /\ call1 = NoVal
    /\ call2 = NoVal
    /\ c1 = NoVal
    /\ c2 = MadeWith(None, DEFAULT_COLOR_FORMAT)
    /\ res = None
    /\ first = NoVal
    /\ op = "init"
    /\ steps = 0
    /\ \E cls \in {"Palette", "StackPalette"} :
          palette = NewPalette(cls, fmt)
    /\ palette2 = MadeWith(fmt, DEFAULT_COLOR_FORMAT)
    /\ files = NoVal
    /\ warnings = <<>>
    /\ grad = NewGrad(None, DEFAULT_COLOR_FORMAT)

\* what a method of the palette leaves: self, the exception or None
StoreCalled(method, self, args, r) ==
    /\ steps < MaxOps
    /\ steps' = steps + 1
    /\ op' = method
    /\ call1' = [self |-> self, args |-> args]
    /\ palette' = r.self
    /\ res' = r.exc
    /\ UNCHANGED <<DEFAULT_COLOR_FORMAT, fmt, call2, c1, c2, first, palette2, files,
                   warnings, grad>>

\* palette = Palette(color_format=F) or StackPalette(color_format=F)
Create ==
    \E cls \in {"Palette", "StackPalette"}, F \in {None, WithAlpha} :
        /\ steps < MaxOps
        /\ steps' = steps + 1
        /\ op' = "create"
        /\ call1' = [cls |-> cls, color_format |-> F]
        /\ palette' = NewPalette(cls, F)
        /\ palette2' = MadeWith(F, DEFAULT_COLOR_FORMAT)
        /\ res' = None
        /\ UNCHANGED <<DEFAULT_COLOR_FORMAT, fmt, call2, c1, c2, first, files, warnings, grad>>

\* the calls that store a colour: add(name, color), update(name, color) and
\* self[key] = color of a Palette; add(color), update(0, color) and
\* self[key] = color of a StackPalette
StoreCalls ==
    IF IsPalette(palette)
    THEN { [method |-> "add", key |-> NameKey(name), color |-> color] :
              name \in StoreNames, color \in StoreColors }
         \cup { [method |-> "update", key |-> NameKey("red"), color |-> GlassRed] }
         \cup { [method |-> "setitem", key |-> key, color |-> Str(<<"0", "0", "f">>)] :
                   key \in {NameKey("red"), IndexKey(0)} }
    ELSE { [method |-> "add", key |-> None, color |-> color] : color \in StoreColors }
         \cup { [method |-> "update", key |-> IndexKey(0), color |-> GlassRed] }
         \cup { [method |-> "setitem", key |-> key, color |-> Str(<<"0", "0", "f">>)] :
                   key \in {NameKey("red"), IndexKey(0)} }

\* the method of the call, formatted being self.color_format.format(color)
Stores(self, call, formatted) ==
    IF IsPalette(self)
    THEN CASE call.method = "add" -> Palette_added(self, call.key.name, formatted)
           [] call.method = "update" -> Palette_updated(self, call.key.name, formatted)
           [] call.method = "setitem" -> Palette_setitem(self, call.key, formatted)
    ELSE CASE call.method = "add" -> Inserted(self, call.key, formatted)
           [] call.method = "update" -> Assigned(self, call.key.index, formatted)
           [] call.method = "setitem" -> StackPalette_setitem(self, call.key, formatted)

\* palette.add(...), palette.update(...) or palette[key] = color
Store ==
    \E call \in StoreCalls :
        \E formatted \in {ColorFormat_format(palette.color_format, call.color)} :
            StoreCalled(call.method, palette, call, Stores(palette, call, formatted))

\* palette.remove("red") or palette.remove()
Remove ==
    /\ op \in {"init", "create", "add", "update", "setitem", "color_format", "set_default",
               "grad", "at", "remove"}
    /\ StoreCalled("remove", palette, None,
                   IF IsPalette(palette) THEN Palette_remove(palette, "red")
                   ELSE StackPalette_remove(palette))

\* palette.color_format = F
SetFormat ==
    \E F \in StoreFormats :
        \E recreated \in {Recreated(F, ColorsOf(palette))} :
            StoreCalled("color_format", palette, F, color_format_fset(palette, F, recreated))

\* config.DEFAULT_COLOR_FORMAT = another format
SetDefaultStore ==
    /\ steps < MaxOps
    /\ steps' = steps + 1
    /\ DEFAULT_COLOR_FORMAT' \in Presets \ {DEFAULT_COLOR_FORMAT}
    /\ op' = "set_default"
    /\ UNCHANGED <<fmt, call1, call2, c1, c2, res, first, pvars>>

\* grad = Grad(["f00", "00f"], color_sys=RGB)
MakeGrad ==
    /\ steps < MaxOps
    /\ steps' = steps + 1
    /\ op' = "grad"
    /\ grad' = NewGrad(None, DEFAULT_COLOR_FORMAT)
    /\ c2' = MadeWith(None, DEFAULT_COLOR_FORMAT)
    /\ UNCHANGED <<DEFAULT_COLOR_FORMAT, fmt, call1, call2, c1, res, first, palette,
                   palette2, files, warnings>>

\* c1 = grad.at(x)
Interpolation ==
    \E x \in {I(0), R(1, 2)} :
        /\ steps < MaxOps
        /\ steps' = steps + 1
        /\ op' = "at"
        /\ call2' = x
        /\ c1' = Grad_at(grad, x, FALSE)
        /\ UNCHANGED <<DEFAULT_COLOR_FORMAT, fmt, call1, c2, res, first, pvars>>

NextStore ==
    \/ Create \/ Store \/ Remove \/ SetFormat \/ SetDefaultStore
    \/ MakeGrad \/ Interpolation

SpecStore == InitStore /\ [][NextStore]_vars

-----------------------------------------------------------------------------
(* Properties of the store specification                                    *)

\* color is a value of the format F: of its colour system, with every
\* parameter F fixes
IsValueOf(color, F) ==
    /\ color.sys = F.color_sys
    /\ \A k \in DOMAIN F.format_params :
          k \in DOMAIN color.params /\ color.params[k] = F.format_params[k]

\* every colour of the palette is a value of the palette's color_format
StoredInFormat(self) ==
    \A k \in DOMAIN ColorsOf(self) : IsValueOf(ColorsOf(self)[k], self.color_format)

\* the names of a Palette in their order, the positions of a StackPalette
Places(self) == IF IsPalette(self) THEN KeyList(self.color_dict) ELSE DOMAIN self.color_stack

C26_CapturedDefault ==
    [][/\ op' = "create" =>
             palette'.color_format = IF call1'.color_format = None THEN DEFAULT_COLOR_FORMAT
                                     ELSE call1'.color_format
       /\ op' = "set_default" => (palette' = palette /\ grad' = grad)
       /\ op' \notin {"create", "color_format"} => palette'.color_format = palette.color_format
       /\ (op' \in {"add", "update", "setitem"} /\ res' = None) =>
             /\ palette'.color_format = palette.color_format
             /\ WellFormed(palette.color_format) => StoredInFormat(palette')
       /\ op' = "grad" => grad'.color_format = DEFAULT_COLOR_FORMAT
       /\ grad'.color_format = c2'.default
       /\ op' = "at" => IsValueOf(c1', c2.default)]_vars

\* C26 witness: a palette made without color_format, the default reassigned
\* since, and a colour added in the format captured
C26_Witness ==
    /\ op = "add"
    /\ res = None
    /\ palette2.color_format = None
    /\ palette.color_format = palette2.default
    /\ DEFAULT_COLOR_FORMAT # palette2.default
    /\ ColorsOf(palette) # <<>>
    /\ StoredInFormat(palette)

-----------------------------------------------------------------------------
(* Properties of the operator specification                                 *)

\* the class of a value: a palette class, or the colour system of a colour
ClassOf(x) ==
    IF IsPalette(x) THEN "Palette" ELSE IF IsStack(x) THEN "StackPalette"
    ELSE IF IsColorBase(x) THEN x.sys ELSE "other"

\* the operators that return an object of the receiver's class (most_similar
\* returns a colour or an item when n is 1; '%' on a colour returns a value
\* of the default format)
SameClassCalls == Operators \cup {"invert", "grayscale", "and", "getitem", "resize"}

IsInverse(c, inv) ==
    /\ inv.sys = c.sys
    /\ inv.params = c.params
    /\ \A i \in 1..3 : inv.rgba[i] = 255 - c.rgba[i]
    /\ inv.rgba[4] = c.rgba[4]

\* ~x for the value x in hand
Inverted(x) ==
    ValueOf(x, "invert", None, JobsOf(x, "invert", None), RunAll(JobsOf(x, "invert", None)))

\* x == y for two colours, two Palettes (Palette.__eq__) or two StackPalettes
\* (StackPalette.__eq__ compares the two lists)
Same(x, y) ==
    IF IsPalette(x) THEN Palette_eq(x, y)
    ELSE IF IsStack(x)
    THEN /\ Len(x.color_stack) = Len(y.color_stack)
         /\ \A k \in DOMAIN x.color_stack : Eq(x.color_stack[k], y.color_stack[k])
    ELSE Eq(x, y)

\* C24: ~c is a colour of c's system and format parameters with red, green
\* and blue taken from 255 and the alpha of c; for a Palette the colours keep
\* their names, for a StackPalette their positions; and ~~c == c
C24_Inversion ==
    op = "invert" =>
        /\ ~IsErr(res)
        /\ ClassOf(res) = ClassOf(c1)
        /\ Len(ColorsOf(res)) = Len(ColorsOf(c1))
        /\ \A k \in DOMAIN ColorsOf(c1) : IsInverse(ColorsOf(c1)[k], ColorsOf(res)[k])
        /\ IsPalette(c1) => \A k \in DOMAIN c1.color_dict :
                                res.color_dict[k][1] = c1.color_dict[k][1]
        /\ Same(Inverted(res), c1)

\* C24 witness: a palette with a translucent colour was inverted
C24_Witness ==
    /\ op = "invert"
    /\ ~IsColorBase(c1)
    /\ \E k \in DOMAIN ColorsOf(c1) : ColorsOf(c1)[k].rgba[4] = 128 /\ ColorsOf(res)[k].rgba[4] = 128

\* the right operands that carry no alpha: a plain tuple of three, or a
\* tuple-based colour with include_a=False
NoAlpha(t) ==
    IF IsColorBase(t) THEN IsColorTuple(t) /\ Len(t.val) = 3
    ELSE "tup" \in DOMAIN t /\ Len(t.tup) = 3

\* C30 as stated: c.grayscale() and c op t, for t without alpha, have the
\* alpha of c
C30_Original ==
    (/\ IsColorBase(c1)
     /\ ~IsErr(res)
     /\ \/ op = "grayscale"
        \/ op \in Operators /\ NoAlpha(call2))
    => res.rgba[4] = c1.rgba[4]

====
